---- MODULE Spec2Model ----
(***************************************************************************)
(* BGN blog automation: interview analysis, content assembly, compliance   *)
(* scoring, markdown conversion and the five-step automation pipeline.     *)
(*                                                                         *)
(* Text is a sequence of one-character tokens.  An ASCII character is the  *)
(* one-character string itself; a Hangul syllable is its romanisation (a   *)
(* string of two or more lower-case letters, e.g. "jeo" "neun" for the two *)
(* syllables of the self-introduction marker).  Scores are integers in     *)
(* hundredths (100 stands for 1.0).                                        *)
(***************************************************************************)
EXTENDS Integers, Sequences, FiniteSets, TLC

VARIABLES
    a_pc,       \* analyzer: "idle" before analyze_interview, "returned" after
    a_input,    \* analyzer: the interview_text argument ([none, s])
    a_fault,    \* analyzer: the extraction statement that raises, or "none"
    a_ret,      \* analyzer: outcome of analyze_interview ([raised, steps, value])
    g_pc,       \* generator: "idle" before generate_content, "returned" after
    g_analysis, \* generator: the analysis_result argument
    g_api,      \* generator: outcome of the text-generation call ([kind, body])
    g_fault,    \* generator: the part of generate_content that raises, or "none"
    g_ret,      \* generator: outcome of generate_content ([raised, main, value])
    c_pc,       \* compliance: "idle" before the checks, "returned" after
    c_present,  \* compliance: the prohibited keywords (indices) the text holds
    c_copies,   \* compliance: the occurrences of each keyword held
    c_added,    \* compliance: the keyword (index) added to the text
    c_ret,      \* compliance: what the checks returned ([safe, safe_added, bgn])
    m_pc,       \* markdown: "idle" before _markdown_to_html, "converted" after
    m_input,    \* markdown: the markdown_content argument
    m_html,     \* markdown: _markdown_to_html(m_input)
    m_again,    \* markdown: _markdown_to_html(m_html)
    p_pc,       \* pipeline: position in execute_automation_rest_api
    p_content,  \* pipeline: the interview text submitted
    p_opts,     \* pipeline: which optional steps are switched on and configured
    p_analysis, \* pipeline: analysis_result
    p_generated, \* pipeline: generated_content
    p_images,   \* pipeline: len(generated_images)
    p_wp,       \* pipeline: wordpress_result ("none", "success", "failure")
    p_status,   \* pipeline: what each optional step's status box reports
    p_shown,    \* pipeline: what display_results_rest_api shows
    p_publish,  \* pipeline: wp_publish_option
    p_post,     \* pipeline: the PostPublishResult held by wordpress_result, or NoResult
    p_row,      \* pipeline: the status and URL cells of the row appended to the sheet
    p_trace,    \* pipeline: the steps carried out so far, in order
    u_pc,       \* one method called on its own: "idle" before the call
    u_arg,      \* one method called on its own: the arguments
    u_res,      \* one method called on its own: what the calls returned
    ig_pc,      \* image generator: position in generate_medical_image
    ig_retry,   \* image generator: the retry_attempts argument
    ig_attempt, \* image generator: the loop variable attempt
    ig_calls,   \* image generator: image-API calls made by the current call
    ig_image,   \* image generator: the local variable image ("None" when unset)
    ig_meta,    \* image generator: metadata ([attempts, success])
    ig_count,   \* image generator: self.generation_count
    ig_failed,  \* image generator: len(self.failed_generations)
    ig_ret,     \* image generator: what generate_medical_image returned
    w_pc,       \* wordpress client: position in upload_image_with_retry
    w_max,      \* wordpress client: self.config.max_retries
    w_attempt,  \* wordpress client: the loop variable attempt
    w_calls,    \* wordpress client: upload calls made by the current call
    w_count,    \* wordpress client: self.upload_count
    w_failed,   \* wordpress client: the operations in self.failed_operations
    w_ret,      \* wordpress client: what upload_image_with_retry returned
    s_impl,     \* sheets client: the implementation called ("safe" or "bgn")
    s_exists,   \* spreadsheet: whether the tracking worksheet exists
    s_rows,     \* spreadsheet: the non-empty rows of the tracking worksheet
    s_created,  \* spreadsheet: add_worksheet calls that succeeded
    s_cached,   \* sheets client: whether self.worksheets holds the worksheet (bgn)
    s_calls,    \* sheets client: add_content_row calls made
    s_ok,       \* sheets client: the calls that returned True, in order
    s_ret,      \* sheets client: what the last add_content_row call returned
    r_pc,       \* sessions: each session's position in add_content_row
    r_next,     \* sessions: each session's next_row
    r_call,     \* sessions: add_content_row calls each session has started
    r_rows,     \* sessions: the rows of the shared worksheet
    r_ok        \* sessions: the row_data of the calls that returned True

vars == <<a_pc, a_input, a_fault, a_ret, g_pc, g_analysis, g_api, g_fault, g_ret,
          c_pc, c_present, c_copies, c_added, c_ret, m_pc, m_input, m_html, m_again,
          p_pc, p_content, p_opts, p_analysis, p_generated, p_images, p_wp, p_status, p_shown,
          p_publish, p_post, p_row, p_trace,
          u_pc, u_arg, u_res,
          ig_pc, ig_retry, ig_attempt, ig_calls, ig_image, ig_meta, ig_count, ig_failed, ig_ret,
          w_pc, w_max, w_attempt, w_calls, w_count, w_failed, w_ret,
          s_impl, s_exists, s_rows, s_created, s_cached, s_calls, s_ok, s_ret,
          r_pc, r_next, r_call, r_rows, r_ok>>

\* ------------------------------------------------------------------ bounds
\* interview texts are put together from at most MaxFrags fragments
MaxFrags == 3

\* replies of the text-generation service are up to MaxReplyMinutes * 300 + 1 long
MaxReplyMinutes == 2

\* the most copies of one prohibited keyword in a text checked for compliance
MaxCopies == 2

\* the most parts a markdown body given to _markdown_to_html is made of
MaxMdParts == 5

\* the most parts a raw text given to _preprocess_text is made of
MaxRawParts == 5

\* the most phrases a tone text is made of
MaxToneParts == 4

\* the largest retry_attempts argument of generate_medical_image
MaxRetryAttempts == 3

\* the most calls of generate_medical_image on one generator
MaxImageCalls == 3

\* the largest config.max_retries of a WordPress client
MaxRetries == 3

\* the most calls of upload_image_with_retry on one client
MaxUploads == 3

\* the most calls of add_content_row on one client
MaxSheetCalls == 5

\* the most images handed to one create_post call
MaxPostImages == 3

\* the most </h2> tags in the content HTML of a post
MaxH2 == 3

\* the most posts handed to one batch_publish_posts call
MaxBatch == 3

\* the most parts an image prompt is made of
MaxPromptParts == 2

\* the most add_content_row calls of one session on the shared worksheet
MaxSessionCalls == 2

\* ------------------------------------------------------------ text helpers
\* the ASCII characters of texts (all printable ones but the backquote)
Ascii ==
    {"\n", "\t", " ", "!", "\"", "#", "$", "%", "&", "'", "(", ")", "*", "+", ",",
     "-", ".", "/", "0", "1", "2", "3", "4", "5", "6", "7", "8", "9", ":", ";",
     "<", "=", ">", "?", "@", "A", "B", "C", "D", "E", "F", "G", "H", "I", "J",
     "K", "L", "M", "N", "O", "P", "Q", "R", "S", "T", "U", "V", "W", "X", "Y",
     "Z", "[", "\\", "]", "^", "_", "a", "b", "c", "d", "e", "f", "g", "h",
     "i", "j", "k", "l", "m", "n", "o", "p", "q", "r", "s", "t", "u", "v", "w",
     "x", "y", "z", "{", "|", "}", "~"}

\* \s of the regular expressions, and the characters str.strip() removes
Ws == {" ", "\n", "\t"}

\* \d
Digits == {"0", "1", "2", "3", "4", "5", "6", "7", "8", "9"}

\* [가-힣]: every token that is not an ASCII character is a Hangul syllable
IsHangul(c) == c \notin Ascii

\* s[i:].startswith(p)
StartsWithAt(s, i, p) ==
    /\ i >= 1
    /\ i + Len(p) - 1 <= Len(s)
    /\ \A k \in 1..Len(p) : s[i + k - 1] = p[k]

\* Python's `p in s`
Contains(s, p) == \E i \in 1..(Len(s) - Len(p) + 1) : StartsWithAt(s, i, p)

\* Python's s.count(p): non-overlapping occurrences, scanning from the left
RECURSIVE CountFrom(_, _, _)
CountFrom(s, p, i) ==
    IF i + Len(p) - 1 > Len(s) THEN 0
    ELSE IF StartsWithAt(s, i, p) THEN 1 + CountFrom(s, p, i + Len(p))
    ELSE CountFrom(s, p, i + 1)

Count(s, p) == CountFrom(s, p, 1)

\* Python's s.strip()
Strip(s) ==
    LET keep == {i \in 1..Len(s) : s[i] \notin Ws}
    IN  IF keep = {} THEN <<>>
        ELSE SubSeq(s, CHOOSE i \in keep : \A j \in keep : i <= j,
                       CHOOSE i \in keep : \A j \in keep : i >= j)

\* re.sub(r'<class>+', rep, s): every maximal run of class characters becomes rep
RECURSIVE CollapseRuns(_, _, _, _)
CollapseRuns(s, i, class, rep) ==
    IF i > Len(s) THEN <<>>
    ELSE IF s[i] \in class
         THEN (IF i > 1 /\ s[i - 1] \in class THEN <<>> ELSE <<rep>>)
              \o CollapseRuns(s, i + 1, class, rep)
         ELSE <<s[i]>> \o CollapseRuns(s, i + 1, class, rep)

\* length of the run of class characters from position i, at most cap
RECURSIVE RunLen(_, _, _, _)
RunLen(s, i, class, cap) ==
    IF cap = 0 \/ i > Len(s) \/ s[i] \notin class THEN 0
    ELSE 1 + RunLen(s, i + 1, class, cap - 1)

\* length of the run of Hangul syllables from position i, at most cap
RECURSIVE HangulRunLen(_, _, _)
HangulRunLen(s, i, cap) ==
    IF cap = 0 \/ i > Len(s) \/ ~IsHangul(s[i]) THEN 0
    ELSE 1 + HangulRunLen(s, i + 1, cap - 1)

IsDigit(c) == c \in Digits

\* position after a greedy \s* that starts at i
SkipWs(s, i) == i + RunLen(s, i, Ws, Len(s))

\* the least element of a non-empty set of positions
MinOf(S) == CHOOSE i \in S : \A j \in S : i <= j

DigitValue(c) == CHOOSE v \in 0..9 : <<"0", "1", "2", "3", "4", "5", "6", "7", "8", "9">>[v + 1] = c

\* int(digits)
RECURSIVE ToInt(_)
ToInt(d) == IF d = <<>> THEN 0 ELSE 10 * ToInt(SubSeq(d, 1, Len(d) - 1)) + DigitValue(d[Len(d)])

AppendIf(cond, seq, x) == IF cond THEN Append(seq, x) ELSE seq

\* the concatenation of a sequence of texts
RECURSIVE Concat(_)
Concat(parts) == IF parts = <<>> THEN <<>> ELSE Head(parts) \o Concat(Tail(parts))

\* all sequences over S of length at most n
SeqsUpTo(S, n) == UNION {[1..k -> S] : k \in 0..n}

\* ------------------------------------------- SafeInterviewAnalyzer (main.py)
\* what a call yields when it raises instead of returning a value
NoResult == [absent |-> TRUE]

\* the minimum length analyze_interview requires of interview_text.strip()
MinTextLen == 10

\* self.medical_terms
Safe_medical_terms ==
    << <<"seu", "ma", "il", "ra", "sik">>, <<"ra", "sik">>, <<"ra", "sek">>,
       <<"baek", "nae", "jang">>, <<"nok", "nae", "jang">>, <<"mang", "mak">>,
       <<"gak", "mak">>, <<"si", "ryeok", "gyo", "jeong">>, <<"geom", "an">>,
       <<"an", "ap">>, <<"O", "C", "T">> >>

\* self.personality_markers, in dictionary (insertion) order
Safe_personality_markers ==
    << [style |-> <<"sol", "jik", "ham">>,
        markers |-> << <<"sol", "jik", "ha", "ge">>, <<"sa", "sil">>,
                       <<"jeong", "mal", "ro">>, <<"jin", "jja">> >>],
       [style |-> <<"bae", "ryeo", "sim">>,
        markers |-> << <<"geok", "jeong", "ha", "ji", " ", "ma", "si", "go">>,
                       <<"pyeon", "ha", "ge">>, <<"cheon", "cheon", "hi">>,
                       <<"gwaen", "chanh", "aa", "yo">> >>],
       [style |-> <<"jeon", "mun", "seong">>,
        markers |-> << <<"ui", "ryo", "jin", "gwa">>, <<"jeong", "hwak", "han">>,
                       <<"jeon", "mun", "jeok", "eu", "ro">>,
                       <<"im", "sang", "jeok", "eu", "ro">> >>],
       [style |-> <<"chin", "geun", "ham">>,
        markers |-> << <<"~", "hae", "yo">>, <<"~", "geo", "deun", "yo">>,
                       <<"~", "ne", "yo">>, <<"gath", "aa", "seo">> >>] >>

\* None as the value of a list field: a list no extraction can build (its one
\* entry is not a text of the program)
None == << <<"None">> >>

\* __post_init__ without its `if self.x is None: self.x = []` statements
PostInitList_keep(v) == v

\* __post_init__ on one list field: `if self.x is None: self.x = []`
PostInitList(v) == IF v = None THEN <<>> ELSE v

\* EmployeeProfile(), PersonalityTraits(), ... : the dataclass defaults (every
\* list field None) after __post_init__
EmployeeProfile ==
    [name |-> <<>>, position |-> <<>>, department |-> <<>>,
     experience_years |-> 0, specialty_areas |-> PostInitList(None)]

PersonalityTraits ==
    [tone_style |-> <<>>, frequent_expressions |-> PostInitList(None),
     communication_style |-> <<>>, personality_keywords |-> PostInitList(None),
     formality_level |-> ""]

ProfessionalKnowledge ==
    [procedures |-> PostInitList(None), equipment |-> PostInitList(None),
     processes |-> PostInitList(None), technical_terms |-> PostInitList(None),
     expertise_level |-> <<>>]

CustomerInsights ==
    [frequent_questions |-> PostInitList(None), customer_feedback |-> PostInitList(None),
     target_demographics |-> PostInitList(None)]

HospitalStrengths ==
    [competitive_advantages |-> PostInitList(None), unique_services |-> PostInitList(None),
     location_benefits |-> PostInitList(None)]

\* InterviewAnalysisResult.__post_init__: the metadata of a result built without one
\* (analysis_date, a wall-clock timestamp, is left out)
DefaultMetadata == [confidence_score |-> 0, content_length |-> 0]

\* _preprocess_text
Safe_preprocess_text(text) ==
    Strip(CollapseRuns(CollapseRuns(text, 1, {"\n"}, "\n"), 1, Ws, " "))

\* re.search(r'<intro>\s*([가-힣]{2,4})', text).group(1), <<>> when there is no match
IntroNameMatch(text, intro) ==
    LET NameAt(i) == SkipWs(text, i + Len(intro))
        Ok(i) == StartsWithAt(text, i, intro) /\ HangulRunLen(text, NameAt(i), 4) >= 2
        S == {i \in 1..Len(text) : Ok(i)}
    IN  IF S = {} THEN <<>>
        ELSE LET j == NameAt(MinOf(S))
             IN  SubSeq(text, j, j + HangulRunLen(text, j, 4) - 1)

\* re.search(r'([가-힣]{2,4})\s*(대리|과장|팀장)', text).group(1), <<>> when no match
TitleNameMatch(text) ==
    LET TitleAt(j) == \/ StartsWithAt(text, j, <<"dae", "ri">>)
                      \/ StartsWithAt(text, j, <<"gwa", "jang">>)
                      \/ StartsWithAt(text, j, <<"tim", "jang">>)
        Lens(i) == {n \in 2..4 : /\ n <= HangulRunLen(text, i, 4)
                                 /\ TitleAt(SkipWs(text, i + n))}
        S == {i \in 1..Len(text) : Lens(i) # {}}
    IN  IF S = {} THEN <<>>
        ELSE LET i == MinOf(S)
                 n == CHOOSE m \in Lens(i) : \A k \in Lens(i) : m >= k
             IN  SubSeq(text, i, i + n - 1)

\* (\d+)년 matches at i: the digit run from i (greedy) is followed by the year syllable
DigitsYearAt(text, i) ==
    /\ i >= 1 /\ i <= Len(text)
    /\ IsDigit(text[i])
    /\ LET e == i + RunLen(text, i, Digits, Len(text))
       IN  e <= Len(text) /\ text[e] = "nyeon"

\* `.` of the regular expressions: any character but a newline, over text[a..b]
NoNewline(text, a, b) == \A m \in a..b : text[m] # "\n"

\* int(re.search(r'(\d+)년.*?(kw1|kw2|...)', text).group(1)), -1 when no match
YearThenKeyword(text, kws) ==
    LET End(i) == i + RunLen(text, i, Digits, Len(text))
        Ok(i) == /\ DigitsYearAt(text, i)
                 /\ \E k \in (End(i) + 1)..Len(text) :
                        /\ \E w \in kws : StartsWithAt(text, k, w)
                        /\ NoNewline(text, End(i) + 1, k - 1)
        S == {i \in 1..Len(text) : Ok(i)}
    IN  IF S = {} THEN -1 ELSE ToInt(SubSeq(text, MinOf(S), End(MinOf(S)) - 1))

\* int(re.search(r'경력.*?(\d+)년', text).group(1)), -1 when no match
KeywordThenYear(text, kw) ==
    LET Digs(i) == {p \in (i + Len(kw))..Len(text) :
                        DigitsYearAt(text, p) /\ NoNewline(text, i + Len(kw), p - 1)}
        S == {i \in 1..Len(text) : StartsWithAt(text, i, kw) /\ Digs(i) # {}}
    IN  IF S = {} THEN -1
        ELSE LET p == MinOf(Digs(MinOf(S)))
             IN  ToInt(SubSeq(text, p, p + RunLen(text, p, Digits, Len(text)) - 1))

\* _extract_employee_info
Safe_extract_employee_info(text) ==
    LET n1 == IntroNameMatch(text, <<"jeo", "neun">>)
        n2 == TitleNameMatch(text)
        n3 == IntroNameMatch(text, <<"je", "ga">>)
        name == IF n1 # <<>> THEN n1 ELSE IF n2 # <<>> THEN n2 ELSE n3
        position == IF Contains(text, <<"dae", "ri">>) THEN <<"dae", "ri">>
                    ELSE IF Contains(text, <<"gwa", "jang">>) THEN <<"gwa", "jang">>
                    ELSE IF Contains(text, <<"tim", "jang">>) THEN <<"tim", "jang">>
                    ELSE <<>>
        department == IF Contains(text, <<"hong", "bo">>) THEN <<"hong", "bo", "tim">>
                      ELSE IF Contains(text, <<"sang", "dam">>) THEN <<"sang", "dam", "tim">>
                      ELSE IF Contains(text, <<"geom", "an">>) THEN <<"geom", "an", "tim">>
                      ELSE <<>>
        e1 == YearThenKeyword(text, {<<"gyeong", "ryeok">>, <<"cha">>})
        e2 == KeywordThenYear(text, <<"gyeong", "ryeok">>)
        e3 == YearThenKeyword(text, {<<"jeong", "do">>})
        years == IF e1 >= 0 THEN e1 ELSE IF e2 >= 0 THEN e2 ELSE IF e3 >= 0 THEN e3 ELSE 0
        s1 == AppendIf(Contains(text, <<"dae", "hak">>) /\ Contains(text, <<"je", "hyu">>),
                       EmployeeProfile.specialty_areas, <<"dae", "hak", " ", "je", "hyu">>)
        s2 == AppendIf(Contains(text, <<"chul", "jang", "geom", "jin">>),
                       s1, <<"chul", "jang", "geom", "jin">>)
        s3 == AppendIf(Contains(text, <<"sang", "dam">>), s2, <<"go", "gaek", " ", "sang", "dam">>)
        s4 == AppendIf(Contains(text, <<"chuk", "je">>), s3, <<"chuk", "je", " ", "ma", "ke", "ting">>)
    IN  [name |-> name, position |-> position, department |-> department,
         experience_years |-> years, specialty_areas |-> s4]

\* _analyze_personality
Safe_analyze_personality(text) ==
    LET tbl == Safe_personality_markers
        Score(k) == Cardinality({m \in 1..Len(tbl[k].markers) : Contains(text, tbl[k].markers[m])})
        scored == SelectSeq([k \in 1..Len(tbl) |-> k], LAMBDA k : Score(k) > 0)
        \* max(style_scores, key=style_scores.get): the first key holding the maximum
        best == CHOOSE i \in 1..Len(scored) :
                    /\ \A j \in 1..Len(scored) : Score(scored[j]) <= Score(scored[i])
                    /\ \A j \in 1..(i - 1) : Score(scored[j]) < Score(scored[i])
        allMarkers == Concat([k \in 1..Len(tbl) |-> tbl[k].markers])
        formal == Count(text, <<"seup", "ni", "da">>) + Count(text, <<"doep", "ni", "da">>)
        casual == Count(text, <<"hae", "yo">>) + Count(text, <<"geo", "deun", "yo">>)
    IN  [tone_style |-> IF scored = <<>> THEN <<>> ELSE tbl[scored[best]].style,
         frequent_expressions |-> PersonalityTraits.frequent_expressions
                                  \o SelectSeq(allMarkers, LAMBDA m : Count(text, m) >= 2),
         communication_style |-> PersonalityTraits.communication_style,
         personality_keywords |-> IF scored = <<>> THEN PersonalityTraits.personality_keywords
                                  ELSE [i \in 1..Len(scored) |-> tbl[scored[i]].style],
         formality_level |-> IF formal > casual THEN "formal" ELSE "casual"]

\* _extract_knowledge
Safe_extract_knowledge(text) ==
    LET found == SelectSeq(Safe_medical_terms, LAMBDA t : Contains(text, t))
        procedures == SelectSeq(found, LAMBDA t : Contains(t, <<"geom", "sa">>))
        technical == SelectSeq(found, LAMBDA t : ~Contains(t, <<"geom", "sa">>))
        kws == SelectSeq(<< <<"jang", "bi">>, <<"O", "C", "T">>, <<"geom", "sa", "gi">>,
                            <<"re", "ii", "jeo">> >>, LAMBDA k : Contains(text, k))
        count == Len(procedures) + Len(technical)
    IN  [procedures |-> ProfessionalKnowledge.procedures \o procedures,
         equipment |-> ProfessionalKnowledge.equipment
                       \o [i \in 1..Len(kws) |-> kws[i] \o <<" ", "gwan", "ryeon">>],
         processes |-> ProfessionalKnowledge.processes,
         technical_terms |-> ProfessionalKnowledge.technical_terms \o technical,
         expertise_level |-> IF count >= 3 THEN <<"jeon", "mun", "ga">>
                             ELSE IF count >= 1 THEN <<"suk", "ryeon", "ja">>
                             ELSE <<"il", "ban">>]

\* _extract_customer_insights
Safe_extract_customer_insights(text) ==
    LET q1 == AppendIf(Contains(text, <<"jil", "mun">>) \/ Contains(text, <<"gung", "geum">>),
                       CustomerInsights.frequent_questions,
                       <<"geom", "sa", " ", "gwa", "jeong", "ee", " ", "dae", "han", " ", "mun", "ui">>)
        q2 == AppendIf(Contains(text, <<"bi", "yong">>) \/ Contains(text, <<"ga", "gyeok">>), q1,
                       <<"bi", "yong", " ", "gwan", "ryeon", " ", "mun", "ui">>)
        d1 == AppendIf(Contains(text, <<"dae", "hak", "saeng">>),
                       CustomerInsights.target_demographics, <<"dae", "hak", "saeng">>)
        d2 == AppendIf(Contains(text, <<"jik", "jang", "in">>), d1, <<"jik", "jang", "in">>)
        d3 == AppendIf(Contains(text, <<"eo", "reu", "sin">>) \/ Contains(text, <<"no", "in">>), d2,
                       <<"jung", "jang", "nyeon", "cheung">>)
    IN  [frequent_questions |-> q2, customer_feedback |-> CustomerInsights.customer_feedback,
         target_demographics |-> d3]

\* _extract_hospital_strengths
Safe_extract_hospital_strengths(text) ==
    LET l1 == AppendIf(Contains(text, <<"ros", "de", "ta", "wo">>) \/ Contains(text, <<"jam", "sil">>),
                       HospitalStrengths.location_benefits, <<"ros", "de", "ta", "wo", " ", "wi", "chi">>)
        l2 == AppendIf(Contains(text, <<"gyo", "tong">>) \/ Contains(text, <<"jeop", "geun">>), l1,
                       <<"gyo", "tong", " ", "pyeon", "ui", "seong">>)
        c1 == AppendIf(Contains(text, <<"mu", "sa", "go">>) \/ Contains(text, <<"2", "6", "nyeon">>),
                       HospitalStrengths.competitive_advantages, <<"2", "6", "nyeon", " ", "mu", "sa", "go", " ", "gi", "rok">>)
        c2 == AppendIf(Contains(text, <<"gyeong", "heom">>) /\ Contains(text, <<"nyeon">>), c1,
                       <<"pung", "bu", "han", " ", "gyeong", "heom">>)
        u1 == AppendIf(Contains(text, <<"hal", "in">>), HospitalStrengths.unique_services,
                       <<"hak", "saeng", " ", "hal", "in", " ", "hye", "taek">>)
        u2 == AppendIf(Contains(text, <<"chuk", "je">>), u1,
                       <<"dae", "hak", " ", "chuk", "je", " ", "sang", "dam">>)
        u3 == AppendIf(Contains(text, <<"chul", "jang">>), u2,
                       <<"chul", "jang", " ", "geom", "jin", " ", "seo", "bi", "seu">>)
    IN  [competitive_advantages |-> c2, unique_services |-> u3, location_benefits |-> l2]

\* min(a, b)
Min(a, b) == IF a <= b THEN a ELSE b

\* max(a, b)
Max(a, b) == IF a >= b THEN a ELSE b

\* _calculate_confidence with each check assigning its weight (score = w)
\* instead of adding it
Safe_calculate_confidence_assign(employee, knowledge) ==
    IF employee.experience_years > 0 THEN 10
    ELSE IF knowledge.procedures # <<>> THEN 20
    ELSE IF employee.specialty_areas # <<>> THEN 20
    ELSE IF employee.position # <<>> THEN 20
    ELSE IF employee.name # <<>> THEN 30
    ELSE 0

\* _calculate_confidence, in hundredths
Safe_calculate_confidence(employee, knowledge) ==
    Min((IF employee.name # <<>> THEN 30 ELSE 0)
        + (IF employee.position # <<>> THEN 20 ELSE 0)
        + (IF employee.specialty_areas # <<>> THEN 20 ELSE 0)
        + (IF knowledge.procedures # <<>> THEN 20 ELSE 0)
        + (IF employee.experience_years > 0 THEN 10 ELSE 0), 100)

\* _create_default_result
Safe_create_default_result ==
    [employee |-> [EmployeeProfile EXCEPT !.name = <<"jik", "won">>,
                                          !.position = <<"jik", "won">>,
                                          !.department = <<"il", "ban">>],
     personality |-> [PersonalityTraits EXCEPT !.tone_style = <<"chin", "geun", "ham">>],
     knowledge |-> [ProfessionalKnowledge EXCEPT !.expertise_level = <<"il", "ban">>],
     customer_insights |-> CustomerInsights,
     hospital_strengths |-> HospitalStrengths,
     analysis_metadata |-> DefaultMetadata]

\* the statements of analyze_interview's try block after the length guard, in order
ExtractionSteps ==
    <<"preprocess", "employee", "personality", "knowledge", "insights", "strengths", "confidence">>

\* the try block of analyze_interview.  fault names the statement that raises
\* ("guard": the length test itself, as len() of a value that has none does).
Safe_analyze_try(input, fault) ==
    IF fault = "guard" THEN [raised |-> TRUE, steps |-> <<>>, value |-> NoResult]
    ELSE IF input.none \/ input.s = <<>> \/ Len(Strip(input.s)) < MinTextLen
    THEN [raised |-> FALSE, steps |-> <<>>, value |-> Safe_create_default_result]
    ELSE IF fault # "none"
    THEN [raised |-> TRUE,
          steps |-> SubSeq(ExtractionSteps, 1,
                           CHOOSE k \in 1..Len(ExtractionSteps) : ExtractionSteps[k] = fault),
          value |-> NoResult]
    ELSE LET cleaned == Safe_preprocess_text(input.s)
             employee == Safe_extract_employee_info(cleaned)
             knowledge == Safe_extract_knowledge(cleaned)
         IN  [raised |-> FALSE, steps |-> ExtractionSteps,
              value |-> [employee |-> employee,
                         personality |-> Safe_analyze_personality(cleaned),
                         knowledge |-> knowledge,
                         customer_insights |-> Safe_extract_customer_insights(cleaned),
                         hospital_strengths |-> Safe_extract_hospital_strengths(cleaned),
                         analysis_metadata |->
                             [confidence_score |-> Safe_calculate_confidence(employee, knowledge),
                              content_length |-> Len(cleaned)]]]

\* analyze_interview dropping its except clause
Safe_analyze_interview_nocatch(input, fault) == Safe_analyze_try(input, fault)

\* analyze_interview: the try block, and `except Exception` returning the default result
Safe_analyze_interview(input, fault) ==
    LET r == Safe_analyze_try(input, fault)
    IN  IF r.raised
        THEN [raised |-> FALSE, steps |-> r.steps, value |-> Safe_create_default_result]
        ELSE r

\* --------------------------------------------- SafeContentGenerator (main.py)
\* Settings.PROHIBITED_KEYWORDS
PROHIBITED_KEYWORDS ==
    << <<"wan", "chi">>, <<"wan", "jeon", "hi", " ", "nas", "neun", "da">>,
       <<"1", "0", "0", "%", " ", "seong", "gong">>, <<"bu", "jak", "yong", " ", "eops", "eum">>,
       <<"se", "gye", " ", "choe", "go">>, <<"guk", "nae", " ", "choe", "go">>,
       <<"hyo", "gwa", " ", "bo", "jang">>, <<"yeong", "gu", "jeok">> >>

\* Settings.HOSPITAL_NAME
HOSPITAL_NAME == <<"B", "G", "N", " ", "balk", "eun", "nun", "an", "gwa">>

\* _create_content_plan
Safe_create_content_plan(analysis) ==
    LET specialties == analysis.employee.specialty_areas
        AnyHas(w) == \E i \in 1..Len(specialties) : Contains(specialties[i], w)
        topic == IF AnyHas(<<"dae", "hak">>)
                 THEN <<"dae", "hak", "saeng", "eul", " ", "wi", "han", " ", "si", "ryeok", "gyo", "jeong", "sul">>
                 ELSE IF AnyHas(<<"chul", "jang">>)
                 THEN <<"jik", "jang", "in", " ", "nun", " ", "geon", "gang", " ", "gwan", "ri">>
                 ELSE <<"an", "gwa", " ", "jin", "ryo", " ", "ga", "ii", "deu">>
        keywords == IF AnyHas(<<"dae", "hak">>)
                    THEN << <<"dae", "hak", "saeng">>, <<"si", "ryeok", "gyo", "jeong">>,
                            <<"bang", "hak", "su", "sul">>, <<"hak", "saeng", "hal", "in">> >>
                    ELSE IF AnyHas(<<"chul", "jang">>)
                    THEN << <<"jik", "jang", "in">>, <<"nun", "geon", "gang">>,
                            <<"jeong", "mil", "geom", "sa">>, <<"chul", "jang", "geom", "jin">> >>
                    ELSE << <<"an", "gwa", "jin", "ryo">>, <<"nun", "geon", "gang">>,
                            <<"geom", "sa">>, <<"sang", "dam">> >>
    IN  [title |-> topic \o <<" ", "wan", "byeok", " ", "ga", "ii", "deu">>,
         primary_keyword |-> keywords[1],
         secondary_keywords |-> Tail(keywords),
         target_audience |-> keywords[1]]

\* the fixed text of the fallback template after the target audience
FallbackTail ==
    <<"eul", " ", "wi", "han", " ", "jeon", "mun", "jeok", "in", " ", "an", "gwa", " ",
      "jeong", "bo", "reul", " ", "an", "nae", "deu", "rip", "ni", "da", ".", "\n", "\n",
      "#", "#", " ", "jeon", "mun", " ", "ui", "ryo", "jin", "ui", " ", "sang", "se",
      "han", " ", "seol", "myeong", "\n", "\n", "jeo", "hui", " ", "B", "G", "N", " ",
      "balk", "eun", "nun", "an", "gwa", "neun", " ", "2", "6", "nyeon", "gan", "ui", " ",
      "pung", "bu", "han", " ", "gyeong", "heom", "eul", " ", "ba", "tang", "eu", "ro",
      " ", "an", "jeon", "ha", "go", " ", "jeong", "hwak", "han", " ", "jin", "ryo",
      "reul", " ", "je", "gong", "ha", "go", " ", "iss", "seup", "ni", "da", ".", "\n",
      "\n", "#", "#", "#", " ", "jeong", "mil", "han", " ", "geom", "sa", " ", "si", "seu",
      "tem", "\n", "\n", "choe", "sin", " ", "ui", "ryo", " ", "jang", "bi", "reul", " ",
      "hwal", "yong", "han", " ", "jeong", "mil", " ", "geom", "sa", "reul", " ", "tong",
      "hae", " ", "gae", "in", "byeol", " ", "maj", "chum", " ", "jin", "ryo", "reul", " ",
      "sil", "si", "hap", "ni", "da", ".", "\n", "\n", "#", "#", "#", " ", "an", "jeon",
      "han", " ", "si", "sul", " ", "hwan", "gyeong", "\n", "\n", "kkae", "kkeus", "ha",
      "go", " ", "che", "gye", "jeok", "in", " ", "si", "sul", " ", "hwan", "gyeong", "ee",
      "seo", " ", "suk", "ryeon", "doen", " ", "ui", "ryo", "jin", "ii", " ", "jik",
      "jeop", " ", "jin", "ryo", "hap", "ni", "da", ".", "\n", "\n", "#", "#", " ", "go",
      "gaek", " ", "jung", "sim", "ui", " ", "seo", "bi", "seu", "\n", "\n", "pyeon", "an",
      "han", " ", "hwan", "gyeong", "ee", "seo", " ", "chung", "bun", "han", " ", "sang",
      "dam", "eul", " ", "tong", "hae", " ", "go", "gaek", "nim", "ui", " ", "gung",
      "geum", "jeung", "eul", " ", "hae", "gyeol", "hae", "deu", "rip", "ni", "da", ".",
      "\n", "\n", "#", "#", " ", "B", "G", "N", " ", "balk", "eun", "nun", "an", "gwa",
      "ui", " ", "teuk", "byeol", "ham", "\n", "\n", "-", " ", "2", "6", "nyeon", "gan",
      " ", "chuk", "jeok", "doen", " ", "pung", "bu", "han", " ", "gyeong", "heom", "\n",
      "-", " ", "jam", "sil", " ", "ros", "de", "ta", "wo", "ui", " ", "pyeon", "ri",
      "han", " ", "wi", "chi", "\n", "-", " ", "gae", "in", "byeol", " ", "maj", "chum",
      " ", "sang", "dam", " ", "seo", "bi", "seu", "\n", "-", " ", "an", "jeon", "eul",
      " ", "choe", "uu", "seon", "eu", "ro", " ", "ha", "neun", " ", "jin", "ryo", " ",
      "cheol", "hak", "\n", "\n", "#", "#", " ", "ma", "mu", "ri", "\n", "\n", "deo", " ",
      "ja", "se", "han", " ", "jeong", "bo", "ga", " ", "pil", "yo", "ha", "si", "myeon",
      " ", "eon", "je", "deun", " ", "sang", "dam", "eul", " ", "tong", "hae", " ", "an",
      "nae", "bat", "eu", "sil", " ", "su", " ", "iss", "seup", "ni", "da", ".", "\n",
      "jeon", "mun", " ", "ui", "ryo", "jin", "gwa", "ui", " ", "1", ":", "1", " ", "sang",
      "dam", "eu", "ro", " ", "gae", "in", "ee", "ge", " ", "ga", "jang", " ", "jeok",
      "hap", "han", " ", "bang", "beop", "eul", " ", "chaj", "aa", "bo", "se", "yo", ".">>

\* _create_detailed_fallback_content
Safe_create_detailed_fallback_content(plan, analysis) ==
    <<"#", " ">> \o plan.title
    \o <<"\n", "\n", "#", "#", " ", "an", "nyeong", "ha", "se", "yo", ",", " ">>
    \o (IF analysis.employee.name # <<>> THEN analysis.employee.name
        ELSE <<"B", "G", "N", " ", "ui", "ryo", "jin">>)
    \o <<"ip", "ni", "da", "\n", "\n">>
    \o plan.target_audience
    \o FallbackTail

\* _generate_slug
Safe_generate_slug(title) ==
    LET keyword_map ==
            << [korean |-> <<"dae", "hak", "saeng">>, english |-> <<"c", "o", "l", "l", "e", "g", "e", "-", "s", "t", "u", "d", "e", "n", "t">>],
               [korean |-> <<"si", "ryeok", "gyo", "jeong">>, english |-> <<"v", "i", "s", "i", "o", "n", "-", "c", "o", "r", "r", "e", "c", "t", "i", "o", "n">>],
               [korean |-> <<"jik", "jang", "in">>, english |-> <<"o", "f", "f", "i", "c", "e", "-", "w", "o", "r", "k", "e", "r">>],
               [korean |-> <<"nun", "geon", "gang">>, english |-> <<"e", "y", "e", "-", "h", "e", "a", "l", "t", "h">>],
               [korean |-> <<"geom", "sa">>, english |-> <<"e", "x", "a", "m", "i", "n", "a", "t", "i", "o", "n">>],
               [korean |-> <<"ga", "ii", "deu">>, english |-> <<"g", "u", "i", "d", "e">>] >>
        hits == SelectSeq(keyword_map, LAMBDA e : Contains(title, e.korean))
        slug_parts == IF hits = <<>> THEN << <<"e", "y", "e", "-", "c", "a", "r", "e">>, <<"g", "u", "i", "d", "e">> >>
                      ELSE [i \in 1..Len(hits) |-> hits[i].english]
    IN  \* "-".join(slug_parts)
        Concat([i \in 1..Len(slug_parts) |->
                    IF i = 1 THEN slug_parts[i] ELSE <<"-">> \o slug_parts[i]])

\* _generate_meta_description
Safe_generate_meta_description(title) ==
    title \o
    <<"ee", " ", "dae", "han", " ", "jeon", "mun", "ui", "ui", " ", "sang", "se", "han",
      " ", "an", "nae", "ip", "ni", "da", ".", " ", "B", "G", "N", " ", "balk", "eun",
      "nun", "an", "gwa", "ee", "seo", " ", "an", "jeon", "ha", "go", " ", "jeong", "hwak",
      "han", " ", "jeong", "bo", "reul", " ", "je", "gong", "hap", "ni", "da", ".">>

\* the tags list of _generate_tags before deduplication
Safe_tags_list(analysis) ==
    LET sp == analysis.employee.specialty_areas
        Ext(i) == IF Contains(sp[i], <<"dae", "hak">>)
                  THEN << <<"dae", "hak", "saeng">>, <<"si", "ryeok", "gyo", "jeong">>,
                          <<"hak", "saeng", "hal", "in">> >>
                  ELSE IF Contains(sp[i], <<"chul", "jang">>)
                  THEN << <<"jik", "jang", "in">>, <<"chul", "jang", "geom", "jin">>,
                          <<"jeong", "mil", "geom", "sa">> >>
                  ELSE <<>>
    IN  << <<"an", "gwa">>, <<"nun", "geon", "gang">>, HOSPITAL_NAME >>
        \o Concat([i \in 1..Len(sp) |-> Ext(i)])

\* the cap of list(set(tags))[:6]
MaxTags == 6

\* _generate_tags with the cap one lower: list(set(tags))[:5]
Safe_generate_tags_cap5(analysis) ==
    LET l == Safe_tags_list(analysis)
        distinct == {l[i] : i \in 1..Len(l)}
    IN  {kept \in SUBSET distinct : Cardinality(kept) = Min(MaxTags - 1, Cardinality(distinct))}

\* _generate_tags: list(set(tags))[:6].  The iteration order of a set of strings is
\* not fixed, so the call yields any MaxTags (or all, when fewer) of the distinct
\* tags; the result is given as the set of the tags kept, and this is the set of
\* the results the call may yield.
Safe_generate_tags(analysis) ==
    LET l == Safe_tags_list(analysis)
        distinct == {l[i] : i \in 1..Len(l)}
    IN  {kept \in SUBSET distinct : Cardinality(kept) = Min(MaxTags, Cardinality(distinct))}

\* re.sub(r'^<marker> (.+)$', r'<tag>\1</tag>', html, flags=re.MULTILINE) on one line
HeadingLine(line, marker, tag) ==
    IF StartsWithAt(line, 1, marker \o <<" ">>) /\ Len(line) > Len(marker) + 1
    THEN <<"<">> \o tag \o <<">">> \o SubSeq(line, Len(marker) + 2, Len(line))
         \o <<"<", "/">> \o tag \o <<">">>
    ELSE line

\* s[i-1:].split(sep): the pieces between successive occurrences of sep, found
\* from the left without overlap
RECURSIVE SplitFrom(_, _, _)
SplitFrom(s, sep, i) ==
    LET hits == {j \in i..(Len(s) - Len(sep) + 1) : StartsWithAt(s, j, sep)}
    IN  IF hits = {} THEN <<SubSeq(s, i, Len(s))>>
        ELSE <<SubSeq(s, i, MinOf(hits) - 1)>> \o SplitFrom(s, sep, MinOf(hits) + Len(sep))

\* sep.join(parts)
Join(parts, sep) ==
    Concat([i \in 1..Len(parts) |-> IF i = 1 THEN parts[i] ELSE sep \o parts[i]])

\* one heading substitution applied to every line of the text
HeadingSub(html, marker, tag) ==
    LET lines == SplitFrom(html, <<"\n">>, 1)
    IN  Join([i \in 1..Len(lines) |-> HeadingLine(lines[i], marker, tag)], <<"\n">>)

\* the positions j at which a closing ** ends a match \*\*(.+?)\*\* opened at i
BoldClose(s, i) ==
    {j \in (i + 3)..(Len(s) - 1) : StartsWithAt(s, j, <<"*", "*">>) /\ NoNewline(s, i + 2, j - 1)}

\* re.sub(r'\*\*(.+?)\*\*', r'<strong>\1</strong>', html) from position i on
RECURSIVE BoldSub(_, _)
BoldSub(s, i) ==
    LET open == {k \in i..(Len(s) - 1) : StartsWithAt(s, k, <<"*", "*">>) /\ BoldClose(s, k) # {}}
    IN  IF open = {} THEN SubSeq(s, i, Len(s))
        ELSE LET k == MinOf(open)
                 j == MinOf(BoldClose(s, k))
             IN  SubSeq(s, i, k - 1)
                 \o <<"<", "s", "t", "r", "o", "n", "g", ">">>
                 \o SubSeq(s, k + 2, j - 1)
                 \o <<"<", "/", "s", "t", "r", "o", "n", "g", ">">>
                 \o BoldSub(s, j + 2)

\* the paragraph step of _markdown_to_html for one piece of html.split('\n\n')
WrapParagraph(piece) ==
    LET para == Strip(piece)
    IN  IF para # <<>> /\ para[1] # "<" /\ para[Len(para)] # ">"
        THEN <<"<", "p", ">">> \o para \o <<"<", "/", "p", ">">>
        ELSE para

\* _markdown_to_html
Safe_markdown_to_html(markdown_content) ==
    LET h1 == HeadingSub(markdown_content, <<"#">>, <<"h", "1">>)
        h2 == HeadingSub(h1, <<"#", "#">>, <<"h", "2">>)
        h3 == HeadingSub(h2, <<"#", "#", "#">>, <<"h", "3">>)
        bold == BoldSub(h3, 1)
        paragraphs == SplitFrom(bold, <<"\n", "\n">>, 1)
        html_paragraphs == SelectSeq([i \in 1..Len(paragraphs) |-> WrapParagraph(paragraphs[i])],
                                     LAMBDA p : p # <<>>)
    IN  Join(html_paragraphs, <<"\n">>)

\* _calculate_seo_score, in hundredths; tags is the set of tags kept
Safe_calculate_seo_score(title, content, tags) ==
    Min((IF 30 <= Len(title) /\ Len(title) <= 60 THEN 30 ELSE 0)
        + (IF Len(content) >= 800 THEN 40 ELSE 0)
        + (IF 3 <= Cardinality(tags) /\ Cardinality(tags) <= 8 THEN 30 ELSE 0), 100)

\* the score taken off per prohibited keyword found, in hundredths (0.2)
CompliancePenalty == 20

\* _check_medical_compliance returning the score without max(score, 0.0)
Safe_check_medical_compliance_nofloor(content) ==
    100 - CompliancePenalty
          * Cardinality({k \in 1..Len(PROHIBITED_KEYWORDS) : Contains(content, PROHIBITED_KEYWORDS[k])})

\* _check_medical_compliance, in hundredths.  (In binary floating point the
\* fifth subtraction of 0.2 from 1.0 leaves 5.6e-17 rather than 0.0.)
Safe_check_medical_compliance(content) ==
    Max(100 - CompliancePenalty
              * Cardinality({k \in 1..Len(PROHIBITED_KEYWORDS) : Contains(content, PROHIBITED_KEYWORDS[k])}),
        0)

\* what SafeContentGenerator._check_medical_compliance hands its caller: the
\* float score and nothing else
Safe_compliance_return(content) == [score |-> Safe_check_medical_compliance(content)]

\* what BGNInterviewAnalyzer._check_medical_compliance hands its caller: a bool;
\* the violations it collects are logged and dropped
BGN_check_medical_compliance(text) ==
    LET violations == SelectSeq(PROHIBITED_KEYWORDS, LAMBDA keyword : Contains(text, keyword))
    IN  [compliant |-> violations = <<>>]

\* _generate_faq, _generate_image_prompts, _generate_cta_text: fixed lists, by name
Safe_generate_faq == <<"faq_consultation", "faq_exam_time", "faq_cost">>

Safe_generate_image_prompts == <<"prompt_consultation", "prompt_equipment", "prompt_interior">>

\* the characters a reading minute holds, in estimated_reading_time
ReadingChars == 300

\* _create_default_content
Safe_create_default_content ==
    [title |-> <<"B", "G", "N", " ", "balk", "eun", "nun", "an", "gwa", " ", "jeon", "mun", " ", "jin", "ryo", " ", "an", "nae">>,
     slug |-> <<"b", "g", "n", "-", "e", "y", "e", "-", "c", "a", "r", "e", "-", "g", "u", "i", "d", "e">>,
     meta_description |-> <<"B", "G", "N", " ", "balk", "eun", "nun", "an", "gwa", "ui", " ",
                          "jeon", "mun", " ", "jin", "ryo", " ", "seo", "bi", "seu",
                          "reul", " ", "an", "nae", "hap", "ni", "da", ".">>,
     content_markdown |-> <<"jeon", "mun", " ", "ui", "ryo", "jin", "ui", " ", "sang", "se",
                          "han", " ", "an", "nae", "reul", " ", "je", "gong", "hap", "ni",
                          "da", ".">>,
     content_html |-> <<"<", "p", ">">> \o <<"jeon", "mun", " ", "ui", "ryo", "jin", "ui", " ", "sang", "se",
                          "han", " ", "an", "nae", "reul", " ", "je", "gong", "hap", "ni",
                          "da", ".">>
                      \o <<"<", "/", "p", ">">>,
     tags |-> { <<"an", "gwa">>, <<"jin", "ryo">>, HOSPITAL_NAME },
     faq_list |-> <<"faq_reservation">>,
     image_prompts |-> <<"prompt_default">>,
     cta_button_text |-> "cta_default",
     estimated_reading_time |-> 2,
     seo_score |-> 50,
     medical_compliance_score |-> 90]

\* ------------------------------------------------- interview analysis runs
\* pieces the interview texts are put together from: the self-introduction
\* marker, a blank, a wide run of blanks and newlines, a name, a title, a
\* department, an experience phrase, two speciality keywords, a consultation
\* phrase and an equipment phrase
InterviewFragments ==
    { <<"jeo", "neun">>,
      <<" ">>,
      <<" ", " ", " ", " ", "\n", "\n", " ", " ">>,
      <<"ii", "ye", "na">>,
      <<" ", "dae", "ri", "ip", "ni", "da", ".">>,
      <<"hong", "bo", "tim", "ee", "seo", " ">>,
      <<"5", "nyeon", "cha", " ">>,
      <<"dae", "hak", " ", "je", "hyu">>,
      <<"sang", "dam", "hae", "yo">>,
      <<"O", "C", "T", " ", "geom", "sa", "gi">> }

\* the interview_text arguments: None, or a text of at most MaxFrags fragments
InterviewInputs ==
    {[none |-> TRUE, s |-> <<>>]}
    \cup {[none |-> FALSE, s |-> Concat(fs)] : fs \in SeqsUpTo(InterviewFragments, MaxFrags)}

\* which statement of the try block raises, if any
Faults == {"none"} \cup {ExtractionSteps[k] : k \in 1..Len(ExtractionSteps)}

a_vars == <<a_pc, a_input, a_fault, a_ret>>

a_Idle ==
    /\ a_pc = "idle"
    /\ a_input = [none |-> TRUE, s |-> <<>>]
    /\ a_fault = "none"
    /\ a_ret = [raised |-> FALSE, steps |-> <<>>, value |-> NoResult]

\* a caller invokes analyzer.analyze_interview(interview_text)
AnalyzeInterview ==
    /\ a_pc = "idle"
    /\ \E input \in InterviewInputs, fault \in Faults :
           /\ a_input' = input
           /\ a_fault' = fault
           /\ a_ret' = Safe_analyze_interview(input, fault)
           /\ a_pc' = "returned"

\* a value is an InterviewAnalysisResult
IsInterviewAnalysisResult(v) ==
    DOMAIN v = {"employee", "personality", "knowledge", "customer_insights",
                "hospital_strengths", "analysis_metadata"}

\* C1: analyze_interview never propagates an exception: for every input (a
\* string, the empty string, None) it returns an InterviewAnalysisResult, and
\* when a statement of the extraction raises, the value returned is the
\* default placeholder result of _create_default_result.
C1_NeverPropagates ==
    a_pc = "returned" =>
        /\ ~a_ret.raised
        /\ IsInterviewAnalysisResult(a_ret.value)
        /\ (a_fault # "none" /\ a_ret.steps # <<>> => a_ret.value = Safe_create_default_result)

\* an extraction statement raised on a text long enough to be analysed, and the
\* call returned the default result
C1_Witness ==
    /\ a_pc = "returned"
    /\ a_fault = "knowledge"
    /\ ~a_input.none
    /\ Len(Strip(a_input.s)) >= MinTextLen
    /\ a_ret.steps # <<>>
    /\ a_ret.value = Safe_create_default_result

\* C2: for every text whose length after _preprocess_text is below the
\* minimum of 10 characters, analyze_interview runs no pattern extraction and
\* returns the default placeholder result (stated for the calls in which no
\* statement raises).
C2_ShortNormalizedIsDefault ==
    (/\ a_pc = "returned"
     /\ a_fault = "none"
     /\ ~a_input.none
     /\ Len(Safe_preprocess_text(a_input.s)) < MinTextLen)
    => (a_ret.steps = <<>> /\ a_ret.value = Safe_create_default_result)

\* _generate_main_content returning the reply's content whatever the outcome
Safe_generate_main_content_nofallback(plan, analysis, api) ==
    [content |-> api.body, source |-> "api", calls |-> 1]

\* _generate_main_content.  api is the outcome of client.chat.completions.create:
\* "raise" (the call raises), "none" (a reply whose content is None, on which
\* len(content) raises) or "ok" (a reply whose content is the string api.body).
\* calls counts the requests sent to the service.  (self.api_key is never empty
\* after __init__, so the early return is not taken.)
Safe_generate_main_content(plan, analysis, api) ==
    IF api.kind = "ok"
    THEN [content |-> api.body, source |-> "api", calls |-> 1]
    ELSE [content |-> Safe_create_detailed_fallback_content(plan, analysis),
          source |-> "fallback", calls |-> 1]

\* the try block of generate_content.  fault is the part that raises ("assemble":
\* a statement after the main content).  _generate_tags may yield any of several
\* tag lists, so the block is given as the set of the outcomes it may have.
Safe_generate_try(analysis, api, fault) ==
    LET content_plan == Safe_create_content_plan(analysis)
        main == Safe_generate_main_content(content_plan, analysis, api)
        main_content == main.content
        title == content_plan.title
        slug == Safe_generate_slug(title)
        meta_description == Safe_generate_meta_description(title)
        html_content == Safe_markdown_to_html(main_content)
        reading_time == Max(1, Len(main_content) \div ReadingChars)
        compliance_score == Safe_check_medical_compliance(main_content)
    IN  IF fault # "none" THEN {[raised |-> TRUE, main |-> main, value |-> NoResult]}
        ELSE {[raised |-> FALSE, main |-> main,
               value |-> [title |-> title,
                          slug |-> slug,
                          meta_description |-> meta_description,
                          content_markdown |-> main_content,
                          content_html |-> html_content,
                          tags |-> tags,
                          faq_list |-> Safe_generate_faq,
                          image_prompts |-> Safe_generate_image_prompts,
                          cta_button_text |-> "cta_consultation",
                          estimated_reading_time |-> reading_time,
                          seo_score |-> Safe_calculate_seo_score(title, main_content, tags),
                          medical_compliance_score |-> compliance_score]]
              : tags \in Safe_generate_tags(analysis)}

\* generate_content: the try block, and `except Exception` returning the default
\* content; the set of the outcomes the call may have
Safe_generate_content(analysis, api, fault) ==
    {IF r.raised THEN [raised |-> FALSE, main |-> r.main, value |-> Safe_create_default_content]
     ELSE r : r \in Safe_generate_try(analysis, api, fault)}

\* ------------------------------------------------- content generation runs
\* n copies of the character c
Fill(c, n) == [i \in 1..n |-> c]

\* interview texts whose analyses the generator is run on: None, the empty
\* text, the self-introduction of a PR deputy (university partnerships), a team
\* lead covering on-site check-ups and university partnerships, and a section
\* chief whose captured name is a prohibited keyword
GeneratorTexts ==
    { [none |-> TRUE, s |-> <<>>],
      [none |-> FALSE, s |-> <<>>],
      [none |-> FALSE,
       s |-> <<"jeo", "neun", " ", "ii", "ye", "na", " ", "dae", "ri", "ip", "ni", "da", ".", " ",
               "hong", "bo", "tim", "ee", "seo", " ", "1", "0", "nyeon", "jjae", " ", "geun", "mu",
               "ha", "myeo", " ", "dae", "hak", " ", "je", "hyu", "reul", " ", "dam", "dang", "hap",
               "ni", "da", ".">>],
      [none |-> FALSE,
       s |-> <<"je", "ga", " ", "gim", "cheol", "su", " ", "tim", "jang", "ip", "ni", "da", ".", " ",
               "chul", "jang", "geom", "jin", "gwa", " ", "dae", "hak", " ", "je", "hyu", "reul", " ",
               "math", "seup", "ni", "da", ".">>],
      [none |-> FALSE,
       s |-> <<"jeo", "neun", " ", "wan", "chi", " ", "gwa", "jang", "ip", "ni", "da", ".", " ",
               "chul", "jang", "geom", "jin", " ", "7", "nyeon", "cha", ".">>] }

\* the analysis results handed to generate_content
GeneratorFacts == {Safe_analyze_interview(t, "none").value : t \in GeneratorTexts}

\* replies of the text-generation service: empty, blank, a short markdown text,
\* a text with a prohibited phrase, and texts around each multiple of ReadingChars
ApiBodies ==
    { <<>>, <<" ", "\n">>,
      <<"#", " ", "T", "i", "t", "l", "e", "\n", "\n", "S", "o", "m", "e", " ", "*", "*", "b", "o",
        "l", "d", "*", "*", " ", "t", "e", "x", "t", ".">>,
      <<"1", "0", "0", "%", " ", "seong", "gong">> }
    \cup {Fill("a", n) : n \in {k * ReadingChars + d : k \in 1..MaxReplyMinutes, d \in {-1, 0, 1}}}

ApiOutcomes ==
    {[kind |-> "raise", body |-> <<>>], [kind |-> "none", body |-> <<>>]}
    \cup {[kind |-> "ok", body |-> b] : b \in ApiBodies}

g_vars == <<g_pc, g_analysis, g_api, g_fault, g_ret>>

g_Idle ==
    /\ g_pc = "idle"
    /\ g_analysis = Safe_create_default_result
    /\ g_api = [kind |-> "raise", body |-> <<>>]
    /\ g_fault = "none"
    /\ g_ret = [raised |-> FALSE, main |-> NoResult, value |-> NoResult]

\* a caller invokes generator.generate_content(analysis_result)
GenerateContent ==
    /\ g_pc = "idle"
    /\ \E analysis \in GeneratorFacts, api \in ApiOutcomes, fault \in {"none", "assemble"} :
           \E ret \in Safe_generate_content(analysis, api, fault) :
               /\ g_analysis' = analysis
               /\ g_api' = api
               /\ g_fault' = fault
               /\ g_ret' = ret
               /\ g_pc' = "returned"

\* C3: for every analysis result (the default placeholder included) and every
\* outcome of the text-generation call (an exception, or a reply of any string,
\* the empty one included), generate_content returns, without raising, a
\* GeneratedContent whose title, slug and content_html are all non-empty.
C3_ContentNeverEmpty ==
    g_pc = "returned" =>
        /\ ~g_ret.raised
        /\ g_ret.value.title # <<>>
        /\ g_ret.value.slug # <<>>
        /\ g_ret.value.content_html # <<>>

\* C4: whenever the text-generation call raises, the body _generate_main_content
\* returns is the template body of _create_detailed_fallback_content: non-empty,
\* a function of the content plan and the fact only, and produced with no
\* request to the service beyond the one that failed.
C4_FallbackOnFailure ==
    (g_pc = "returned" /\ g_api.kind = "raise") =>
        /\ g_ret.main.source = "fallback"
        /\ g_ret.main.content =
               Safe_create_detailed_fallback_content(Safe_create_content_plan(g_analysis), g_analysis)
        /\ g_ret.main.content # <<>>
        /\ g_ret.main.calls = 1

\* the service call raised and the content returned carries the fallback body,
\* which names the employee found by the analysis
C4_Witness ==
    /\ g_pc = "returned"
    /\ g_api.kind = "raise"
    /\ g_fault = "none"
    /\ g_analysis.employee.name = <<"ii", "ye", "na">>
    /\ g_ret.value.content_markdown = g_ret.main.content
    /\ Contains(g_ret.value.content_markdown, <<"ii", "ye", "na">>)
    /\ Len(g_ret.value.content_markdown) > ReadingChars

\* a / b rounded up
CeilDiv(a, b) == (a + b - 1) \div b

\* C8: for every GeneratedContent returned by generate_content,
\* estimated_reading_time = max(1, ceil(character_count / 300)), character_count
\* being the length of content_markdown.
C8_ReadingTimeRoundsUp ==
    g_pc = "returned" =>
        g_ret.value.estimated_reading_time
            = Max(1, CeilDiv(Len(g_ret.value.content_markdown), ReadingChars))

\* ------------------------------------------------------- compliance runs
\* words of an ordinary sentence, put in front of every text checked
ComplianceFiller == <<"an", "gwa", " ", "jin", "ryo", " ", "an", "nae", " ">>

\* a text holding copies occurrences of each prohibited keyword whose index is
\* in present, and no other
ComplianceText(present, copies) ==
    ComplianceFiller
    \o Concat([k \in 1..Len(PROHIBITED_KEYWORDS) |->
                  IF k \in present
                  THEN Concat([i \in 1..copies |-> PROHIBITED_KEYWORDS[k] \o <<" ">>])
                  ELSE <<>>])

c_vars == <<c_pc, c_present, c_copies, c_added, c_ret>>

c_Idle ==
    /\ c_pc = "idle"
    /\ c_present = {}
    /\ c_copies = 1
    /\ c_added = 1
    /\ c_ret = NoResult

\* the texts the checks are called on: any set of prohibited keywords, each
\* occurring c_copies times, and one more keyword to be added to the text
c_Inputs ==
    /\ c_pc = "idle"
    /\ c_present \in SUBSET (1..Len(PROHIBITED_KEYWORDS))
    /\ c_copies \in 1..MaxCopies
    /\ c_added \in 1..Len(PROHIBITED_KEYWORDS)
    /\ c_ret = NoResult

\* the callers of _check_medical_compliance (generate_content, BGN
\* analyze_interview) on the text, and generate_content on the text with one
\* more prohibited keyword
CheckCompliance ==
    /\ c_pc = "idle"
    /\ LET text == ComplianceText(c_present, c_copies)
       IN  c_ret' = [safe |-> Safe_compliance_return(text),
                     safe_added |-> Safe_compliance_return(text \o PROHIBITED_KEYWORDS[c_added]),
                     bgn |-> BGN_check_medical_compliance(text)]
    /\ c_pc' = "returned"
    /\ UNCHANGED <<c_present, c_copies, c_added>>

\* C6: for every text, the score SafeContentGenerator._check_medical_compliance
\* returns lies in [0, 1]; it is 1.0 less 0.2 for each prohibited keyword present
\* and never below 0.0: exactly 1.0 with none present, 0.0 with all eight, and
\* not higher once one more prohibited keyword is added to the text.
C6_ComplianceScoreBounded ==
    c_pc = "returned" =>
        LET n == Cardinality(c_present)
            before == c_ret.safe.score
            after == c_ret.safe_added.score
        IN  /\ before \in 0..100
            /\ after \in 0..100
            /\ before = Max(100 - 20 * n, 0)
            /\ (n = 0 => before = 100)
            /\ (n = Len(PROHIBITED_KEYWORDS) => before = 0)
            /\ after <= before
            /\ (c_added \notin c_present /\ before > 0 => after = before - 20)

\* a text with all eight prohibited keywords, each repeated, scored 0.0
C6_Witness ==
    /\ c_pc = "returned"
    /\ Cardinality(c_present) = Len(PROHIBITED_KEYWORDS)
    /\ c_copies = MaxCopies
    /\ c_ret.safe.score = 0
    /\ c_ret.safe_added.score = 0

\* C7: for every text containing a prohibited keyword p, a compliance check
\* returns to its caller a score strictly below 1.0 together with a violations
\* list that includes p.
C7_ViolationsReturned ==
    (c_pc = "returned" /\ c_present # {}) =>
        \E r \in {c_ret.safe, c_ret.bgn} :
            /\ "score" \in DOMAIN r
            /\ r.score < 100
            /\ "violations" \in DOMAIN r
            /\ \A k \in c_present :
                   \E i \in 1..Len(r.violations) : r.violations[i] = PROHIBITED_KEYWORDS[k]

\* ---------------------------------------------------------- markdown runs
\* the parts markdown bodies are made of: a letter, the bold marker, the
\* heading marker, the tag characters, a line break and a blank line
MarkdownParts ==
    { <<"a">>, <<"*", "*">>, <<"#", " ">>, <<"<">>, <<">">>, <<"\n">>, <<"\n", "\n">> }

MarkdownInputs == {Concat(ps) : ps \in SeqsUpTo(MarkdownParts, MaxMdParts)}

m_vars == <<m_pc, m_input, m_html, m_again>>

m_Idle ==
    /\ m_pc = "idle"
    /\ m_input = <<>>
    /\ m_html = <<>>
    /\ m_again = <<>>

m_Inputs ==
    /\ m_pc = "idle"
    /\ m_input \in MarkdownInputs
    /\ m_html = <<>>
    /\ m_again = <<>>

\* _markdown_to_html(m_input), and _markdown_to_html of what it returned
ConvertMarkdown ==
    /\ m_pc = "idle"
    /\ m_html' = Safe_markdown_to_html(m_input)
    /\ m_again' = Safe_markdown_to_html(Safe_markdown_to_html(m_input))
    /\ m_pc' = "converted"
    /\ UNCHANGED m_input

\* a text without markdown markers: no * and no #
NoMarkdownMarkers(h) == \A i \in 1..Len(h) : h[i] \notin {"*", "#"}

\* C9: for every markdown input m whose output h = _markdown_to_html(m) holds no
\* markdown marker, _markdown_to_html(h) = h.
C9_MarkdownIdempotent ==
    (m_pc = "converted" /\ NoMarkdownMarkers(m_html)) => m_again = m_html

\* the non-empty blank-line-separated paragraphs of a body, stripped, after the
\* heading and bold substitutions
MarkdownParagraphs(m) ==
    LET h1 == HeadingSub(m, <<"#">>, <<"h", "1">>)
        h2 == HeadingSub(h1, <<"#", "#">>, <<"h", "2">>)
        h3 == HeadingSub(h2, <<"#", "#", "#">>, <<"h", "3">>)
        pieces == SplitFrom(BoldSub(h3, 1), <<"\n", "\n">>, 1)
    IN  SelectSeq([i \in 1..Len(pieces) |-> Strip(pieces[i])], LAMBDA p : p # <<>>)

\* C10: for every markdown body, the output of _markdown_to_html is its
\* paragraphs in order, each paragraph that does not start with the tag
\* character < wrapped in exactly one <p>...</p> pair (whatever it contains or
\* ends with) and each paragraph that starts with a tag unchanged.
C10_ParagraphsWrappedOnce ==
    m_pc = "converted" =>
        LET paras == MarkdownParagraphs(m_input)
        IN  m_html = Join([i \in 1..Len(paras) |->
                              IF paras[i][1] = "<" THEN paras[i]
                              ELSE <<"<", "p", ">">> \o paras[i] \o <<"<", "/", "p", ">">>],
                          <<"\n">>)

\* ------------------------------------------- execute_automation_rest_api runs
\* the interview texts typed into the form: nothing, and the self-introduction
\* of the PR deputy
PipelineTexts == {t.s : t \in {x \in GeneratorTexts : ~x.none /\ (x.s = <<>> \/ Contains(x.s, <<"ye", "na">>))}}

\* analyze_interview(content) for each of these texts
PipelineAnalysis ==
    [t \in PipelineTexts |-> Safe_analyze_interview([none |-> FALSE, s |-> t], "none").value]

\* outcomes of the text-generation call during a run: the call raises, or
\* replies with an empty or a short body
PipelineApi == {o \in ApiOutcomes : o.kind # "none" /\ Len(o.body) < ReadingChars - 1}

\* an optional step whose exception leaves the function, as in steps 1 and 2
OptionalStepRaised_return(next) == "aborted"

\* the step an optional step (3, 4, 5) is followed by when it raises: its
\* `except Exception` reports the error and the function goes on
OptionalStepRaised(next) == next

p_vars ==
    <<p_pc, p_content, p_opts, p_analysis, p_generated, p_images, p_wp, p_status, p_shown,
      p_publish, p_post, p_row, p_trace>>

p_Idle ==
    /\ p_pc = "idle"
    /\ p_content = <<>>
    /\ p_opts = [images |-> FALSE, wp |-> FALSE, sheets |-> FALSE]
    /\ p_analysis = NoResult
    /\ p_generated = NoResult
    /\ p_images = 0
    /\ p_wp = "none"
    /\ p_status = [images |-> "pending", wp |-> "pending", sheets |-> "pending"]
    /\ p_shown = NoResult
    /\ p_publish = "draft"
    /\ p_post = NoResult
    /\ p_row = NoResult
    /\ p_trace = <<>>

\* execute_automation_rest_api is entered: content is the interview text;
\* p_opts.images is `generate_images and IMAGE_AVAILABLE`, p_opts.wp is
\* `wp_connect and wp_url and wp_username and wp_password`, p_opts.sheets is
\* `save_to_sheets and GOOGLE_SHEETS_AVAILABLE and sheets_id`
p_Entered ==
    /\ p_pc = "step1"
    /\ p_content \in PipelineTexts
    /\ p_opts \in [images : BOOLEAN, wp : BOOLEAN, sheets : BOOLEAN]
    /\ p_analysis = NoResult
    /\ p_generated = NoResult
    /\ p_images = 0
    /\ p_wp = "none"
    /\ p_status = [images |-> "pending", wp |-> "pending", sheets |-> "pending"]
    /\ p_shown = NoResult
    /\ p_publish \in {"draft", "publish", "private"}
    /\ p_post = NoResult
    /\ p_row = NoResult
    /\ p_trace = <<>>

\* one entry of p_trace: the step, and whether an exception left its try block
Ran(step, raised) == [step |-> step, raised |-> raised]

\* WordPressRestAPIClient.create_post's result: on 201 the post's link and the
\* publish_status asked for; otherwise (another status code, an exception)
\* status "failed" and no URL
PostPublishResult(outcome, publish_status) ==
    IF outcome = "success"
    THEN [success |-> TRUE, status |-> publish_status, post_url |-> "link"]
    ELSE [success |-> FALSE, status |-> "failed", post_url |-> ""]

\* add_content_row called without its wordpress_result argument
RowStatusUrl_default(wordpress_result) == [status |-> "saengseongdoem", post_url |-> ""]

\* the status and URL cells of add_content_row's row_data:
\* wordpress_result.status if wordpress_result else "생성됨", and
\* wordpress_result.post_url if wordpress_result else ""
RowStatusUrl(wordpress_result) ==
    IF wordpress_result = NoResult
    THEN [status |-> "saengseongdoem", post_url |-> ""]
    ELSE [status |-> wordpress_result.status, post_url |-> wordpress_result.post_url]

\* step 1: SafeInterviewAnalyzer(api_key) and analyze_interview(content); an
\* exception (the constructor's) ends the function
Step1_Analyze ==
    /\ p_pc = "step1"
    /\ \E outcome \in {"ok", "raise"} :
           IF outcome = "raise"
           THEN /\ p_pc' = "aborted"
                /\ UNCHANGED p_analysis
                /\ p_trace' = Append(p_trace, Ran("analysis", TRUE))
           ELSE /\ p_analysis' = PipelineAnalysis[p_content]
                /\ p_pc' = "step2"
                /\ p_trace' = Append(p_trace, Ran("analysis", FALSE))
    /\ UNCHANGED <<p_content, p_opts, p_generated, p_images, p_wp, p_status, p_shown,
                   p_publish, p_post, p_row>>

\* step 2: SafeContentGenerator(api_key) and generate_content(analysis_result);
\* an exception (the constructor's) ends the function
Step2_Generate ==
    /\ p_pc = "step2"
    /\ \E api \in PipelineApi, fault \in {"none", "assemble", "init"} :
           IF fault = "init"
           THEN /\ p_pc' = "aborted"
                /\ UNCHANGED p_generated
                /\ p_trace' = Append(p_trace, Ran("content", TRUE))
           ELSE \E ret \in Safe_generate_content(p_analysis, api, fault) :
                    /\ p_generated' = ret.value
                    /\ p_pc' = "step3"
                    /\ p_trace' = Append(p_trace, Ran("content", FALSE))
    /\ UNCHANGED <<p_content, p_opts, p_analysis, p_images, p_wp, p_status, p_shown,
                   p_publish, p_post, p_row>>

\* step 3: image generation.  generate_blog_images returns a list of n images,
\* one at most per image prompt; the step raises before the list is assigned
\* ("raise_generate") or while the previews are drawn ("raise_preview")
Step3_Images ==
    /\ p_pc = "step3"
    /\ IF ~p_opts.images
       THEN /\ p_images' = 0
            /\ p_status' = [p_status EXCEPT !.images = "skipped"]
            /\ p_pc' = "step4"
            /\ UNCHANGED p_trace
       ELSE \E outcome \in {"ok", "raise_generate", "raise_preview"},
               n \in 0..Len(p_generated.image_prompts) :
                /\ outcome = "raise_preview" => n > 0
                /\ p_images' = IF outcome = "raise_generate" THEN 0 ELSE n
                /\ p_status' = [p_status EXCEPT !.images = IF outcome = "ok" THEN "complete" ELSE "raised"]
                /\ p_pc' = IF outcome = "ok" THEN "step4" ELSE OptionalStepRaised("step4")
                /\ p_trace' = Append(p_trace, Ran("images", outcome # "ok"))
    /\ UNCHANGED <<p_content, p_opts, p_analysis, p_generated, p_wp, p_shown,
                   p_publish, p_post, p_row>>

\* step 4: WordPress posting.  create_post returns a result whose success is
\* true ("success") or false ("failure"), or the step raises before
\* wordpress_result is assigned
Step4_WordPress ==
    /\ p_pc = "step4"
    /\ IF ~p_opts.wp
       THEN /\ p_wp' = "none"
            /\ p_status' = [p_status EXCEPT !.wp = "skipped"]
            /\ p_pc' = "step5"
            /\ UNCHANGED <<p_post, p_trace>>
       ELSE \E outcome \in {"success", "failure", "raise"} :
                /\ p_wp' = IF outcome = "raise" THEN "none" ELSE outcome
                /\ p_status' = [p_status EXCEPT !.wp = CASE outcome = "success" -> "complete"
                                                          [] outcome = "failure" -> "failed"
                                                          [] OTHER -> "raised"]
                /\ p_pc' = IF outcome = "raise" THEN OptionalStepRaised("step5") ELSE "step5"
                /\ p_post' = IF outcome = "raise" THEN NoResult
                              ELSE PostPublishResult(outcome, p_publish)
                /\ p_trace' = Append(p_trace, Ran("wordpress", outcome = "raise"))
    /\ UNCHANGED <<p_content, p_opts, p_analysis, p_generated, p_images, p_shown, p_publish, p_row>>

\* step 5: Google Sheets.  add_content_row(analysis_result, generated_content,
\* wordpress_result) returns True ("success", the row is appended) or False
\* ("failure"), or the step raises (the client's constructor)
Step5_Sheets ==
    /\ p_pc = "step5"
    /\ IF ~p_opts.sheets
       THEN /\ p_status' = [p_status EXCEPT !.sheets = "skipped"]
            /\ p_pc' = "display"
            /\ UNCHANGED <<p_row, p_trace>>
       ELSE \E outcome \in {"success", "failure", "raise"} :
                /\ p_status' = [p_status EXCEPT !.sheets = CASE outcome = "success" -> "complete"
                                                              [] outcome = "failure" -> "failed"
                                                              [] OTHER -> "raised"]
                /\ p_pc' = IF outcome = "raise" THEN OptionalStepRaised("display") ELSE "display"
                /\ p_row' = IF outcome = "success" THEN RowStatusUrl(p_post) ELSE p_row
                /\ p_trace' = Append(p_trace, Ran("sheets", outcome = "raise"))
    /\ UNCHANGED <<p_content, p_opts, p_analysis, p_generated, p_images, p_wp, p_shown,
                   p_publish, p_post>>

\* display_results_rest_api(analysis_result, generated_content, generated_images,
\* wordpress_result): the text areas and downloads carry the body
DisplayResults ==
    /\ p_pc = "display"
    /\ p_shown' = [markdown |-> p_generated.content_markdown,
                   html |-> p_generated.content_html,
                   images |-> p_images,
                   posted |-> p_wp = "success"]
    /\ p_pc' = "displayed"
    /\ UNCHANGED <<p_content, p_opts, p_analysis, p_generated, p_images, p_wp, p_status,
                   p_publish, p_post, p_row, p_trace>>

\* what follows steps 1 and 2
PipelineTail ==
    \/ Step3_Images
    \/ Step4_WordPress
    \/ Step5_Sheets
    \/ DisplayResults

Pipeline ==
    \/ Step1_Analyze
    \/ Step2_Generate
    \/ PipelineTail

\* C5: once steps 1 and 2 of execute_automation_rest_api have completed,
\* display_results_rest_api is eventually reached and shows the markdown and
\* HTML body step 2 generated, whatever steps 3, 4 and 5 do (succeed, report a
\* failure, raise, or are skipped); no later step alters the generated content.
C5_BodyEventuallyDisplayed ==
    /\ [][(p_pc \in {"step3", "step4", "step5", "display"}) => (p_generated' = p_generated)]_vars
    /\ (p_pc = "step3") ~> (/\ p_pc = "displayed"
                            /\ p_shown.markdown = p_generated.content_markdown
                            /\ p_shown.html = p_generated.content_html)

\* steps 3, 4 and 5 all raised, and the results page shows the generated body
C5_Witness ==
    /\ p_pc = "displayed"
    /\ p_status = [images |-> "raised", wp |-> "raised", sheets |-> "raised"]
    /\ p_wp = "none"
    /\ p_images = 0
    /\ p_shown.markdown = p_generated.content_markdown
    /\ p_shown.html = p_generated.content_html
    /\ p_shown.markdown # <<>>

\* ------------------------------- BGNInterviewAnalyzer (interview_analyzer.py)
\* \d{2}:\d{2} matches at i
TimestampAt(s, i) ==
    /\ i >= 1 /\ i + 4 <= Len(s)
    /\ IsDigit(s[i]) /\ IsDigit(s[i + 1]) /\ s[i + 2] = ":" /\ IsDigit(s[i + 3]) /\ IsDigit(s[i + 4])

\* re.sub(r'\d{2}:\d{2}', '', s) from position i on
RECURSIVE RemoveTimestamps(_, _)
RemoveTimestamps(s, i) ==
    LET hits == {j \in i..(Len(s) - 4) : TimestampAt(s, j)}
    IN  IF hits = {} THEN SubSeq(s, i, Len(s))
        ELSE SubSeq(s, i, MinOf(hits) - 1) \o RemoveTimestamps(s, MinOf(hits) + 5)

\* the speaker label of a transcript line (participant)
SpeakerLabel == <<"cham", "seok", "ja">>

\* the position after a match of <label>\s*\d+\s* that starts at i, 0 when none does
SpeakerEnd(s, i) ==
    LET p == SkipWs(s, i + Len(SpeakerLabel))
        d == RunLen(s, p, Digits, Len(s))
    IN  IF StartsWithAt(s, i, SpeakerLabel) /\ d >= 1 THEN SkipWs(s, p + d) ELSE 0

\* re.sub(r'<label>\s*\d+\s*', '', s) from position i on
RECURSIVE RemoveSpeakers(_, _)
RemoveSpeakers(s, i) ==
    LET hits == {j \in i..Len(s) : SpeakerEnd(s, j) > 0}
    IN  IF hits = {} THEN SubSeq(s, i, Len(s))
        ELSE SubSeq(s, i, MinOf(hits) - 1) \o RemoveSpeakers(s, SpeakerEnd(s, MinOf(hits)))

\* BGNInterviewAnalyzer._preprocess_text
BGN_preprocess_text(text) ==
    Strip(RemoveSpeakers(
              RemoveTimestamps(CollapseRuns(CollapseRuns(text, 1, {"\n"}, "\n"), 1, Ws, " "), 1),
              1))

\* -------------------------------------------------------- normalization runs
\* the parts raw texts are made of: a letter, a blank, a line break, a digit, a
\* timestamp and the speaker label
RawParts ==
    { <<"a">>, <<" ">>, <<"\n">>, <<"1">>, <<"1", "2", ":", "3", "4">>, SpeakerLabel }

RawTexts == {Concat(ps) : ps \in SeqsUpTo(RawParts, MaxRawParts)}

u_vars == <<u_pc, u_arg, u_res>>

u_Idle ==
    /\ u_pc = "idle"
    /\ u_arg = NoResult
    /\ u_res = NoResult

n_Inputs ==
    /\ u_pc = "idle"
    /\ u_arg \in RawTexts
    /\ u_res = NoResult

\* _preprocess_text(x) and _preprocess_text(_preprocess_text(x)) of both analyzers
PreprocessText ==
    /\ u_pc = "idle"
    /\ u_res' = [safe |-> Safe_preprocess_text(u_arg),
                 safe_again |-> Safe_preprocess_text(Safe_preprocess_text(u_arg)),
                 bgn |-> BGN_preprocess_text(u_arg),
                 bgn_again |-> BGN_preprocess_text(BGN_preprocess_text(u_arg))]
    /\ u_pc' = "normalized"
    /\ UNCHANGED u_arg

\* C11: for every raw text x, _preprocess_text(_preprocess_text(x)) equals
\* _preprocess_text(x), for SafeInterviewAnalyzer._preprocess_text and for
\* BGNInterviewAnalyzer._preprocess_text.
C11_PreprocessIdempotent ==
    u_pc = "normalized" =>
        /\ u_res.safe_again = u_res.safe
        /\ u_res.bgn_again = u_res.bgn

\* BGNInterviewAnalyzer._calculate_confidence_score, in hundredths
BGN_calculate_confidence_score(employee, personality, knowledge) ==
    Min((IF employee.name # <<>> THEN 20 ELSE 0)
        + (IF employee.position # <<>> THEN 15 ELSE 0)
        + (IF employee.experience_years > 0 THEN 15 ELSE 0)
        + (IF employee.specialty_areas # <<>> THEN 10 ELSE 0)
        + (IF personality.tone_style # <<>> THEN 15 ELSE 0)
        + (IF personality.frequent_expressions # <<>> THEN 10 ELSE 0)
        + (IF knowledge.procedures # <<>> THEN 10 ELSE 0)
        + (IF knowledge.technical_terms # <<>> THEN 5 ELSE 0), 100)

\* ----------------------------------------------------------- confidence runs
\* the presence checks of the two confidence scores
PresenceChecks ==
    {"name", "position", "experience_years", "specialty_areas", "tone_style",
     "frequent_expressions", "procedures", "technical_terms"}

\* an analysis in which exactly the checks of present find something
\* (two specialty areas, seven years of experience)
ProfileWith(present) ==
    [employee |->
        [EmployeeProfile EXCEPT
            !.name = IF "name" \in present THEN <<"ii", "ye", "na">> ELSE <<>>,
            !.position = IF "position" \in present THEN <<"dae", "ri">> ELSE <<>>,
            !.experience_years = IF "experience_years" \in present THEN 7 ELSE 0,
            !.specialty_areas = IF "specialty_areas" \in present
                                THEN << <<"dae", "hak", " ", "je", "hyu">>, <<"chul", "jang", "geom", "jin">> >>
                                ELSE <<>>],
     personality |->
        [PersonalityTraits EXCEPT
            !.tone_style = IF "tone_style" \in present THEN <<"chin", "geun", "ham">> ELSE <<>>,
            !.frequent_expressions = IF "frequent_expressions" \in present
                                     THEN << <<"sol", "jik", "hi">> >> ELSE <<>>],
     knowledge |->
        [ProfessionalKnowledge EXCEPT
            !.procedures = IF "procedures" \in present THEN << <<"ra", "sik">> >> ELSE <<>>,
            !.technical_terms = IF "technical_terms" \in present THEN << <<"gak", "mak">> >> ELSE <<>>]]

k_Inputs ==
    /\ u_pc = "idle"
    /\ u_arg \in [present : SUBSET PresenceChecks, more : PresenceChecks]
    /\ u_res = NoResult

\* the two confidence computations on an analysis, and on the same analysis with
\* one more check finding something
CalculateConfidence ==
    /\ u_pc = "idle"
    /\ LET p == ProfileWith(u_arg.present)
           q == ProfileWith(u_arg.present \cup {u_arg.more})
       IN  u_res' = [safe |-> Safe_calculate_confidence(p.employee, p.knowledge),
                     safe_more |-> Safe_calculate_confidence(q.employee, q.knowledge),
                     bgn |-> BGN_calculate_confidence_score(p.employee, p.personality, p.knowledge),
                     bgn_more |-> BGN_calculate_confidence_score(q.employee, q.personality, q.knowledge)]
    /\ u_pc' = "scored"
    /\ UNCHANGED u_arg

\* C12: the confidence score of _calculate_confidence and of
\* _calculate_confidence_score lies in [0, 1] (0 with no check present), and
\* turning one presence check from absent to present, all else equal, never
\* lowers it.
C12_ConfidenceMonotone ==
    u_pc = "scored" =>
        /\ u_res.safe \in 0..100 /\ u_res.bgn \in 0..100
        /\ u_res.safe_more \in 0..100 /\ u_res.bgn_more \in 0..100
        /\ (u_arg.present = {} => u_res.safe = 0 /\ u_res.bgn = 0)
        /\ u_res.safe_more >= u_res.safe
        /\ u_res.bgn_more >= u_res.bgn

\* a name, a position and two specialty areas are found and experience is not;
\* finding the experience too raises both scores
C12_Witness ==
    /\ u_pc = "scored"
    /\ u_arg.present = {"name", "position", "specialty_areas"}
    /\ u_arg.more = "experience_years"
    /\ u_res.safe = 70 /\ u_res.safe_more = 80
    /\ u_res.bgn = 45 /\ u_res.bgn_more = 60

\* ------------------- BGNInterviewAnalyzer extraction (interview_analyzer.py)
\* self.medical_terms
BGN_medical_terms ==
    << <<"seu", "ma", "il", "ra", "sik">>, <<"ra", "sik">>, <<"ra", "sek">>, <<"baek", "nae", "jang">>, <<"nok", "nae", "jang">>, <<"mang", "mak">>,
       <<"gak", "mak">>, <<"si", "ryeok", "gyo", "jeong">>, <<"geom", "an">>, <<"an", "ap">>, <<"si", "ya", "geom", "sa">>, <<"O", "C", "T">>,
       <<"an", "jeo", "geom", "sa">>, <<"gak", "mak", "ji", "hyeong", "do">>, <<"nun", "mul", "cheung">>, <<"ma", "ii", "bom", "saem">>, <<"geon", "seong", "an">>,
       <<"bi", "mun", "jeung">>, <<"hwang", "ban", "byeon", "seong">>, <<"dang", "nyo", "mang", "mak", "byeong", "jeung">>, <<"ja", "ga", "hyeol", "cheong", "an", "yak">> >>

\* self.personality_markers, in dictionary (insertion) order
BGN_personality_markers ==
    << [style |-> <<"sol", "jik", "ham">>,
        markers |-> << <<"sol", "jik", "ha", "ge">>, <<"sa", "sil">>, <<"jeong", "mal", "ro">>, <<"jin", "jja">> >>],
       [style |-> <<"hyeon", "sil", "jeok">>,
        markers |-> << <<"sil", "je", "ro">>, <<"gyeong", "heom", "sang">>, <<"bo", "tong", "eun">>, <<"il", "ban", "jeok", "eu", "ro">> >>],
       [style |-> <<"bae", "ryeo", "sim">>,
        markers |-> << <<"geok", "jeong", "ha", "ji", " ", "ma", "si", "go">>, <<"pyeon", "ha", "ge">>, <<"cheon", "cheon", "hi">>, <<"gwaen", "chanh", "aa", "yo">> >>],
       [style |-> <<"jeon", "mun", "seong">>,
        markers |-> << <<"ui", "ryo", "jin", "gwa">>, <<"jeong", "hwak", "han">>, <<"jeon", "mun", "jeok", "eu", "ro">>, <<"im", "sang", "jeok", "eu", "ro">> >>],
       [style |-> <<"chin", "geun", "ham">>,
        markers |-> << <<"~", "hae", "yo">>, <<"~", "geo", "deun", "yo">>, <<"~", "ne", "yo">>, <<"gath", "aa", "seo">> >>],
       [style |-> <<"gyeom", "son", "ham">>,
        markers |-> << <<"je", "ga", " ", "al", "gi", "ro", "neun">>, <<"aa", "ma", "do">>, <<"~", "in", " ", "geos", " ", "gath", "aa", "yo">> >>] >>

\* EmployeeProfile(), ... of interview_analyzer.py: the dataclass defaults
\* (every list field None) after __post_init__
BGN_EmployeeProfile ==
    [name |-> <<>>, position |-> <<>>, department |-> <<>>, experience_years |-> 0,
     career_history |-> PostInitList(None), specialty_areas |-> PostInitList(None)]

BGN_PersonalityTraits ==
    [tone_style |-> <<>>, frequent_expressions |-> PostInitList(None),
     communication_style |-> <<>>, personality_keywords |-> PostInitList(None),
     formality_level |-> ""]

BGN_ProfessionalKnowledge ==
    [procedures |-> PostInitList(None), equipment |-> PostInitList(None),
     processes |-> PostInitList(None), technical_terms |-> PostInitList(None),
     expertise_level |-> <<>>]

BGN_CustomerInsights ==
    [frequent_questions |-> PostInitList(None), customer_feedback |-> PostInitList(None),
     pain_points |-> PostInitList(None), success_stories |-> PostInitList(None),
     target_demographics |-> PostInitList(None)]

BGN_HospitalStrengths ==
    [competitive_advantages |-> PostInitList(None), unique_services |-> PostInitList(None),
     equipment_advantages |-> PostInitList(None), location_benefits |-> PostInitList(None),
     team_strengths |-> PostInitList(None)]

\* re.search(r'(a1|a2).*?(b1|b2).*?(c1|c2)', text) finds a match: one of first,
\* later one of mid, later one of last, no line break in between
ChainMatch(text, first, mid, last) ==
    \E a \in first : \E i \in 1..Len(text) :
        /\ StartsWithAt(text, i, a)
        /\ \E b \in mid : \E j \in (i + Len(a))..Len(text) :
               /\ StartsWithAt(text, j, b)
               /\ NoNewline(text, i + Len(a), j - 1)
               /\ \E c \in last : \E k \in (j + Len(b))..Len(text) :
                      /\ StartsWithAt(text, k, c)
                      /\ NoNewline(text, j + Len(b), k - 1)

\* the greatest element of a non-empty set of numbers
MaxOf(S) == CHOOSE i \in S : \A j \in S : i >= j

\* _extract_employee_info
BGN_extract_employee_info(text) ==
    LET titles == { <<"dae", "ri">>, <<"gwa", "jang">>, <<"tim", "jang">>, <<"bu", "jang">> }
        TitleAt(j) == \E t \in titles : StartsWithAt(text, j, t)
        \* 저는\s*([가-힣]{2,4})\s*(대리|과장|팀장|부장)
        Lens1(p) == {n \in 2..4 : n <= HangulRunLen(text, p, 4) /\ TitleAt(SkipWs(text, p + n))}
        S1 == {i \in 1..Len(text) : /\ StartsWithAt(text, i, <<"jeo", "neun">>)
                                    /\ Lens1(SkipWs(text, i + 2)) # {}}
        p1 == SkipWs(text, MinOf(S1) + 2)
        \* ([가-힣]{2,4})\s*(대리|과장|팀장|부장).*?입니다
        Lens2(i) == {n \in 2..4 :
                        /\ n <= HangulRunLen(text, i, 4)
                        /\ LET q == SkipWs(text, i + n)
                           IN  /\ TitleAt(q)
                               /\ \E k \in (q + 2)..Len(text) :
                                      /\ StartsWithAt(text, k, <<"ip", "ni", "da">>)
                                      /\ NoNewline(text, q + 2, k - 1)}
        S2 == {i \in 1..Len(text) : Lens2(i) # {}}
        \* 홍보.*?([가-힣]{2,4})
        Runs3(i) == {k \in (i + 2)..Len(text) :
                        HangulRunLen(text, k, 4) >= 2 /\ NoNewline(text, i + 2, k - 1)}
        S3 == {i \in 1..Len(text) : StartsWithAt(text, i, <<"hong", "bo">>) /\ Runs3(i) # {}}
        k3 == MinOf(Runs3(MinOf(S3)))
        name == IF S1 # {} THEN SubSeq(text, p1, p1 + MaxOf(Lens1(p1)) - 1)
                ELSE IF S2 # {} THEN SubSeq(text, MinOf(S2), MinOf(S2) + MaxOf(Lens2(MinOf(S2))) - 1)
                ELSE IF S3 # {} THEN SubSeq(text, k3, k3 + HangulRunLen(text, k3, 4) - 1)
                ELSE BGN_EmployeeProfile.name
        \* self.position_patterns, in dictionary order
        department ==
            IF ChainMatch(text, { <<"hong", "bo">>, <<"ma", "ke", "ting">> }, { <<"tim">>, <<"bu">> }, titles)
            THEN <<"hong", "bo", "tim">>
            ELSE IF ChainMatch(text, { <<"sang", "dam">>, <<"jeop", "su">> }, { <<"tim">>, <<"bu">> },
                               { <<"dae", "ri">>, <<"gwa", "jang">>, <<"tim", "jang">> })
            THEN <<"sang", "dam", "tim">>
            ELSE IF ChainMatch(text, { <<"geom", "an">>, <<"geom", "sa">> }, { <<"tim">>, <<"bu">>, <<"sa">> },
                               { <<"dae", "ri">>, <<"gwa", "jang">>, <<"geom", "an", "sa">> })
            THEN <<"geom", "an", "tim">>
            ELSE IF ChainMatch(text, { <<"gan", "ho">>, <<"ke", "eo">> }, { <<"tim">>, <<"bu">>, <<"sa">> },
                               { <<"dae", "ri">>, <<"gwa", "jang">>, <<"gan", "ho", "sa">> })
            THEN <<"gan", "ho", "tim">>
            ELSE IF \E w \in { <<"won", "jang">>, <<"ui", "sa">>, <<"dak", "teo">> } : Contains(text, w)
            THEN <<"ui", "ryo", "jin">>
            ELSE BGN_EmployeeProfile.department
        \* re.search(r'(대리|과장|팀장|부장|원장)', text), once a department is found
        Ranks == {i \in 1..Len(text) : TitleAt(i) \/ StartsWithAt(text, i, <<"won", "jang">>)}
        position == IF department # <<>> /\ Ranks # {}
                    THEN SubSeq(text, MinOf(Ranks), MinOf(Ranks) + 1)
                    ELSE BGN_EmployeeProfile.position
        \* (\d+)년\s*(정도|차|째|경력)
        YearEnd(i) == i + RunLen(text, i, Digits, Len(text))
        E1 == {i \in 1..Len(text) :
                  /\ DigitsYearAt(text, i)
                  /\ \E w \in { <<"jeong", "do">>, <<"cha">>, <<"jjae">>, <<"gyeong", "ryeok">> } :
                         StartsWithAt(text, SkipWs(text, YearEnd(i) + 1), w)}
        e2 == KeywordThenYear(text, <<"gyeong", "ryeok">>)
        e3 == YearThenKeyword(text, { <<"il">>, <<"geun", "mu">>, <<"gyeong", "heom">> })
        years == IF E1 # {} THEN ToInt(SubSeq(text, MinOf(E1), YearEnd(MinOf(E1)) - 1))
                 ELSE IF e2 >= 0 THEN e2
                 ELSE IF e3 >= 0 THEN e3
                 ELSE BGN_EmployeeProfile.experience_years
        s1 == AppendIf(Contains(text, <<"dae", "hak">>) /\ Contains(text, <<"je", "hyu">>),
                       BGN_EmployeeProfile.specialty_areas, <<"dae", "hak", " ", "je", "hyu">>)
        s2 == AppendIf(Contains(text, <<"chul", "jang">>) /\ Contains(text, <<"geom", "jin">>), s1, <<"chul", "jang", "geom", "jin">>)
        s3 == AppendIf(Contains(text, <<"chuk", "je">>), s2, <<"chuk", "je", " ", "ma", "ke", "ting">>)
        s4 == AppendIf(Contains(text, <<"sang", "dam">>), s3, <<"go", "gaek", " ", "sang", "dam">>)
    IN  [BGN_EmployeeProfile EXCEPT !.name = name, !.position = position,
                                    !.department = department,
                                    !.experience_years = years, !.specialty_areas = s4]

\* _analyze_personality
BGN_analyze_personality(text) ==
    LET tbl == BGN_personality_markers
        Score(k) == Cardinality({m \in 1..Len(tbl[k].markers) : Contains(text, tbl[k].markers[m])})
        scored == SelectSeq([k \in 1..Len(tbl) |-> k], LAMBDA k : Score(k) > 0)
        \* max(style_scores, key=style_scores.get): the first key holding the maximum
        best == CHOOSE i \in 1..Len(scored) :
                    /\ \A j \in 1..Len(scored) : Score(scored[j]) <= Score(scored[i])
                    /\ \A j \in 1..(i - 1) : Score(scored[j]) < Score(scored[i])
        allMarkers == Concat([k \in 1..Len(tbl) |-> tbl[k].markers])
        formal == Count(text, <<"seup", "ni", "da">>) + Count(text, <<"doep", "ni", "da">>) + Count(text, <<"deu", "rip", "ni", "da">>)
        casual == Count(text, <<"hae", "yo">>) + Count(text, <<"geo", "deun", "yo">>) + Count(text, <<"ne", "yo">>)
                  + Count(text, <<"in", "de">>)
    IN  [BGN_PersonalityTraits EXCEPT
            !.tone_style = IF scored = <<>> THEN @ ELSE tbl[scored[best]].style,
            !.personality_keywords =
                IF scored = <<>> THEN @ ELSE [i \in 1..Len(scored) |-> tbl[scored[i]].style],
            \* personality.frequent_expressions = frequent_phrases
            !.frequent_expressions = SelectSeq(allMarkers, LAMBDA m : Count(text, m) >= 2),
            \* formal_count > casual_count * 1.5, casual_count > formal_count * 1.5
            !.formality_level = IF 2 * formal > 3 * casual THEN "formal"
                                ELSE IF 2 * casual > 3 * formal THEN "casual"
                                ELSE "mixed",
            !.communication_style =
                IF Contains(text, <<"gyeong", "heom">>) /\ Contains(text, <<"sil", "je">>) THEN <<"gyeong", "heom", " ", "jung", "sim">>
                ELSE IF Contains(text, <<"ye", "reul", " ", "deul", "eo">>) \/ Contains(text, <<"ye", "si">>) THEN <<"ye", "si", " ", "jung", "sim">>
                ELSE IF Contains(text, <<"de", "ii", "teo">>) \/ Contains(text, <<"tong", "gye">>) THEN <<"de", "ii", "teo", " ", "jung", "sim">>
                ELSE <<"il", "ban", "jeok">>]

\* --------------- BGNInterviewAnalyzer knowledge, insights, strengths, merge
\* _extract_professional_knowledge
BGN_extract_professional_knowledge(text) ==
    LET found == SelectSeq(BGN_medical_terms, LAMBDA t : Contains(text, t))
        IsProcedure(t) == \/ Contains(t, <<"geom", "sa">>) \/ Contains(t, <<"O", "C", "T">>) \/ Contains(t, <<"si", "ya">>)
                          \/ Contains(t, <<"ra", "sik">>) \/ Contains(t, <<"su", "sul">>)
        procedures == SelectSeq(found, LAMBDA t : IsProcedure(t))
        technical == SelectSeq(found, LAMBDA t : ~IsProcedure(t))
        kws == SelectSeq(<< <<"bi", "jeu", "maek", "seu">>, <<"jang", "bi">>, <<"gi", "gye">>, <<"geom", "sa", "gi">>, <<"re", "ii", "jeo">> >>,
                         LAMBDA k : Contains(text, k))
        \* re.search(f'{keyword}[^.]*', text).group()
        Phrase(k) == LET i == MinOf({j \in 1..Len(text) : StartsWithAt(text, j, k)})
                         dots == {j \in (i + Len(k))..Len(text) : text[j] = "."}
                     IN  SubSeq(text, i, IF dots = {} THEN Len(text) ELSE MinOf(dots) - 1)
        processes == SelectSeq(<< <<"jeop", "su">>, <<"geom", "an">>, <<"jin", "ryo">>, <<"sang", "dam">>, <<"chul", "jang", "geom", "jin">>, <<"chuk", "je">> >>,
                               LAMBDA k : Contains(text, k))
        count == Len(procedures) + Len(technical)
    IN  [BGN_ProfessionalKnowledge EXCEPT
            !.procedures = @ \o procedures,
            !.technical_terms = @ \o technical,
            !.equipment = @ \o [i \in 1..Len(kws) |-> Phrase(kws[i])],
            !.processes = @ \o processes,
            !.expertise_level = IF count >= 5 THEN <<"jeon", "mun", "ga">>
                                ELSE IF count >= 3 THEN <<"suk", "ryeon", "ja">>
                                ELSE IF count >= 1 THEN <<"gyeong", "heom", "ja">>
                                ELSE <<"il", "ban">>]

\* re.finditer(pattern, text) from position from, for the patterns
\* (s1|s2|..)\s*[class1].*?lit[class2] (class1 = {}: no \s*[class1] part;
\* class2 = {}: no [class2] part): the matches, as their first and last positions
RECURSIVE FindAll(_, _, _)
FindAll(text, from, pat) ==
    LET HeadEnd(i, a) == IF pat.class1 = {} THEN i + Len(a)
                         ELSE SkipWs(text, i + Len(a)) + 1
        HeadAt(i, a) == /\ StartsWithAt(text, i, a)
                        /\ \/ pat.class1 = {}
                           \/ /\ HeadEnd(i, a) - 1 <= Len(text)
                              /\ text[HeadEnd(i, a) - 1] \in pat.class1
        Ends(p) == {k \in p..Len(text) :
                       /\ StartsWithAt(text, k, pat.lit)
                       /\ \/ pat.class2 = {}
                          \/ /\ k + Len(pat.lit) <= Len(text)
                             /\ text[k + Len(pat.lit)] \in pat.class2
                       /\ NoNewline(text, p, k - 1)}
        Fits(i, a) == HeadAt(i, a) /\ Ends(HeadEnd(i, a)) # {}
        starts == {i \in from..Len(text) : \E a \in pat.starts : Fits(i, a)}
    IN  IF starts = {} THEN <<>>
        ELSE LET i == MinOf(starts)
                 a == CHOOSE x \in pat.starts : Fits(i, x)
                 e == MinOf(Ends(HeadEnd(i, a))) + Len(pat.lit)
                      + (IF pat.class2 = {} THEN 0 ELSE 1) - 1
             IN  <<[start |-> i, end |-> e]>> \o FindAll(text, e + 1, pat)

\* for the matches of each pattern in turn:
\* text[max(0, match.start()-before):match.end()+after].strip()
Contexts(text, pats, before, after) ==
    Concat([n \in 1..Len(pats) |->
               LET ms == FindAll(text, 1, pats[n])
               IN  [j \in 1..Len(ms) |->
                       Strip(SubSeq(text, Max(1, ms[j].start - before),
                                    Min(Len(text), ms[j].end + after)))]])

\* _extract_customer_insights
BGN_extract_customer_insights(text) ==
    LET question_patterns ==
            << [starts |-> { <<"ja", "ju">> }, class1 |-> {"mul", "eo", "|", "bat", "neun", "ha"},
                lit |-> <<"jil", "mun">>, class2 |-> {}],
               [starts |-> { <<"manh", "ii">> }, class1 |-> {"mul", "eo", "|", "bat", "neun", "ha"},
                lit |-> <<"jil", "mun">>, class2 |-> {}],
               [starts |-> { <<"gung", "geum", "hae">> }, class1 |-> {}, lit |-> <<"ha">>,
                class2 |-> {"si", "neun", "|"}],
               [starts |-> { <<"mun", "ui">> }, class1 |-> {}, lit |-> <<"manh">>,
                class2 |-> {"ii", "|", "eun"}] >>
        feedback_patterns ==
            << [starts |-> { <<"joh", "da">>, <<"man", "jok">>, <<"gam", "sa">>, <<"go", "map", "da">> }, class1 |-> {},
                lit |-> <<>>, class2 |-> {"go", "ha"}],
               [starts |-> { <<"seom", "se">>, <<"chin", "jeol">>, <<"jeong", "hwak">> }, class1 |-> {},
                lit |-> <<>>, class2 |-> {"da", "go", "|", "ha"}],
               [starts |-> { <<"chu", "cheon">> }, class1 |-> {},
                lit |-> <<>>, class2 |-> {"ha", "neun", "|", "bat"}] >>
        d1 == AppendIf(Contains(text, <<"dae", "hak", "saeng">>), BGN_CustomerInsights.target_demographics,
                       <<"dae", "hak", "saeng">>)
        d2 == AppendIf(Contains(text, <<"jik", "jang", "in">>) \/ Contains(text, <<"hoe", "sa">>), d1, <<"jik", "jang", "in">>)
        d3 == AppendIf(Contains(text, <<"eo", "reu", "sin">>) \/ Contains(text, <<"no", "in">>), d2, <<"jung", "jang", "nyeon", "cheung">>)
        d4 == AppendIf(Contains(text, <<"gun", "in">>) \/ Contains(text, <<"gun", "bu", "dae">>), d3, <<"gun", "in">>)
    IN  [BGN_CustomerInsights EXCEPT
            !.frequent_questions = @ \o Contexts(text, question_patterns, 50, 100),
            !.customer_feedback = @ \o Contexts(text, feedback_patterns, 30, 50),
            !.target_demographics = d4]

\* _extract_hospital_strengths
BGN_extract_hospital_strengths(text) ==
    LET Found(kws) == SelectSeq(kws, LAMBDA k : Contains(text, k))
        Suffixed(kws, suffix) == [i \in 1..Len(kws) |-> kws[i] \o suffix]
        location == Found(<< <<"ros", "de", "ta", "wo">>, <<"jam", "sil">>, <<"wi", "chi">>, <<"jeop", "geun", "seong">>, <<"gyo", "tong">> >>)
        equipment == IF Contains(text, <<"jang", "bi">>) \/ Contains(text, <<"gi", "gye">>)
                     THEN Found(<< <<"choe", "sin">>, <<"jeong", "mil">>, <<"go", "geup">>, <<"cheom", "dan">>, <<"manh", "eun", " ", "jang", "bi">> >>)
                     ELSE <<>>
        team == Found(<< <<"tim", "wo", "keu">>, <<"hyeop", "ryeok">>, <<"so", "tong">>, <<"chin", "jeol">> >>)
        u1 == AppendIf(Contains(text, <<"gae", "in", "byeol">>)
                       /\ (Contains(text, <<"ke", "eo">>) \/ Contains(text, <<"gwan", "ri">>)),
                       BGN_HospitalStrengths.unique_services, <<"gae", "in", "byeol", " ", "maj", "chum", " ", "ke", "eo">>)
        u2 == AppendIf(Contains(text, <<"gael", "reo", "ri">>), u1, <<"gael", "reo", "ri", " ", "un", "yeong">>)
    IN  [BGN_HospitalStrengths EXCEPT
            !.location_benefits = @ \o Suffixed(location, <<" ", "gwan", "ryeon", " ", "jang", "jeom">>),
            !.equipment_advantages = @ \o Suffixed(equipment, <<" ", "jang", "bi">>),
            !.unique_services = u2,
            !.competitive_advantages =
                AppendIf(Contains(text, <<"mu", "sa", "go">>) \/ Contains(text, <<"sa", "go">>), @,
                         <<"an", "jeon", "han", " ", "si", "sul", " ", "gi", "rok">>),
            !.team_strengths = @ \o Suffixed(team, <<" ", "uu", "su">>)]

\* ------------------------------- BGNInterviewAnalyzer.analyze_interview
\* the elements of a list
Range(list) == {list[i] : i \in DOMAIN list}

\* list(set(values)): the distinct elements, each once, in any of the orders
\* the set's iteration can give
ListOfSet(values) ==
    LET S == Range(values)
    IN  {f \in [1..Cardinality(S) -> S] : \A i, j \in DOMAIN f : i # j => f[i] # f[j]}

\* _merge_analysis_results with overwrite semantics: the AI-supplied name and
\* specialty areas replace the pattern-extracted ones
BGN_merge_analysis_results_overwrite(employee, personality, ai) ==
    {[employee |-> IF ai.kind = "none" \/ ai.employee # "object" THEN employee
                   ELSE [employee EXCEPT
                            !.name = IF ai.name # <<>> THEN ai.name ELSE @,
                            !.specialty_areas = IF ai.specialty_areas # <<>>
                                                THEN ai.specialty_areas ELSE @],
      personality |-> personality]}

\* _merge_analysis_results on the pattern-extracted employee and personality
\* (the other three items are returned untouched).  ai is what
\* _ai_enhanced_analysis returned: kind "none" for {} (the call or the JSON
\* parsing failed), else an object whose 'employee' and 'personality' entries
\* are absent, an object, or some other JSON value (calling .get on it raises
\* inside the try block).  The set of the results it can return.
BGN_merge_analysis_results(employee, personality, ai) ==
    IF ai.kind = "none" THEN {[employee |-> employee, personality |-> personality]}
    ELSE LET emp1 == IF ai.employee = "object"
                     THEN [employee EXCEPT
                              !.name = IF ai.name # <<>> /\ @ = <<>> THEN ai.name ELSE @,
                              !.specialty_areas = @ \o ai.specialty_areas]
                     ELSE employee
             per1 == IF ai.employee # "other" /\ ai.personality = "object"
                     THEN [personality EXCEPT
                              !.frequent_expressions = @ \o ai.frequent_expressions]
                     ELSE personality
         IN  IF ai.employee = "other" \/ ai.personality = "other"
             THEN {[employee |-> emp1, personality |-> per1]}
             ELSE {[employee |-> [emp1 EXCEPT !.specialty_areas = s],
                    personality |-> [per1 EXCEPT !.frequent_expressions = f]] :
                      s \in ListOfSet(emp1.specialty_areas),
                      f \in ListOfSet(per1.frequent_expressions)}

\* analyze_interview: the set of the results it can return (analysis_date, a
\* wall-clock timestamp, is left out of the metadata)
BGN_analyze_interview(interview_text, use_ai_enhancement, ai) ==
    LET cleaned == BGN_preprocess_text(interview_text)
        employee == BGN_extract_employee_info(cleaned)
        personality == BGN_analyze_personality(cleaned)
        knowledge == BGN_extract_professional_knowledge(cleaned)
        merged == IF use_ai_enhancement
                  THEN BGN_merge_analysis_results(employee, personality, ai)
                  ELSE {[employee |-> employee, personality |-> personality]}
    IN  {[employee |-> m.employee,
          personality |-> m.personality,
          knowledge |-> knowledge,
          customer_insights |-> BGN_extract_customer_insights(cleaned),
          hospital_strengths |-> BGN_extract_hospital_strengths(cleaned),
          analysis_metadata |->
              [confidence_score |->
                   BGN_calculate_confidence_score(m.employee, m.personality, knowledge),
               content_length |-> Len(cleaned),
               medical_compliance_checked |-> BGN_check_medical_compliance(cleaned).compliant,
               ai_enhancement_used |-> use_ai_enhancement]] : m \in merged}

\* -------------------------------------------------- both analyzers' runs
\* interview texts: the Scenario A introduction, a reply with three specialty
\* areas and a repeated marker, a short greeting, and the empty text
AnalyzerTexts ==
    { <<"jeo", "neun", " ", "ii", "ye", "na", " ", "dae", "ri", "ip", "ni", "da", ".", " ", "hong", "bo", "tim", "ee", "seo", " ", "1", "0", "nyeon", "jjae", " ", "geun", "mu", "ha", "myeo", " ", "dae", "hak", " ", "je", "hyu", "reul", " ", "dam", "dang", "hap", "ni", "da", ".">>,
      <<"dae", "hak", " ", "je", "hyu", "wa", " ", "chuk", "je", " ", "sang", "dam", "eul", " ", "sa", "sil", " ", "ja", "ju", " ", "hap", "ni", "da", ".", " ", "sa", "sil", " ", "jang", "bi", "ga", " ", "choe", "sin", "ip", "ni", "da", ".">>,
      <<"an", "nyeong", "ha", "se", "yo">>,
      <<>> }

\* what _ai_enhanced_analysis can return
AiResults ==
    LET names == {<<>>, <<"gim", "min", "su">> }
        areas == {<<>>, << <<"dae", "hak", " ", "je", "hyu">> >>, << <<"dae", "hak", " ", "je", "hyu">>, <<"ra", "sik", " ", "sang", "dam">> >>,
                  << <<"ra", "sik", " ", "sang", "dam">>, <<"ra", "sik", " ", "sang", "dam">> >>}
        phrases == {<<>>, << <<"sa", "sil">> >>, << <<"sa", "sil">>, <<"sa", "sil">>, <<"pyeon", "ha", "ge">> >>}
    IN  {[kind |-> "none", employee |-> "absent", name |-> <<>>, specialty_areas |-> <<>>,
          personality |-> "absent", frequent_expressions |-> <<>>]}
        \cup {r \in [kind : {"object"}, employee : {"absent", "object", "other"},
                     name : names, specialty_areas : areas,
                     personality : {"absent", "object", "other"},
                     frequent_expressions : phrases] :
                 /\ r.employee # "object" => r.name = <<>> /\ r.specialty_areas = <<>>
                 /\ r.personality # "object" => r.frequent_expressions = <<>>}

i_Inputs ==
    /\ u_pc = "idle"
    /\ u_arg \in [text : AnalyzerTexts, fault : {"none", "employee"},
                  use_ai_enhancement : BOOLEAN, ai : AiResults]
    /\ u_res = NoResult

\* SafeInterviewAnalyzer.analyze_interview and BGNInterviewAnalyzer.analyze_interview
\* called on the interview text
AnalyzeBoth ==
    /\ u_pc = "idle"
    /\ \E r \in BGN_analyze_interview(u_arg.text, u_arg.use_ai_enhancement, u_arg.ai) :
           u_res' = [safe |-> Safe_analyze_interview([none |-> FALSE, s |-> u_arg.text],
                                                     u_arg.fault).value,
                     bgn |-> r]
    /\ u_pc' = "analyzed"
    /\ UNCHANGED u_arg

\* C13: in every result analyze_interview returns (normal extraction, default
\* placeholder, after the AI merge step), every list field of employee,
\* personality, knowledge, customer_insights and hospital_strengths is a list,
\* never None.
C13_ListFieldsNeverNone ==
    u_pc = "analyzed" =>
        LET s == u_res.safe
            b == u_res.bgn
        IN  None \notin
                {s.employee.specialty_areas,
                 s.personality.frequent_expressions, s.personality.personality_keywords,
                 s.knowledge.procedures, s.knowledge.equipment, s.knowledge.processes,
                 s.knowledge.technical_terms,
                 s.customer_insights.frequent_questions, s.customer_insights.customer_feedback,
                 s.customer_insights.target_demographics,
                 s.hospital_strengths.competitive_advantages,
                 s.hospital_strengths.unique_services, s.hospital_strengths.location_benefits,
                 b.employee.career_history, b.employee.specialty_areas,
                 b.personality.frequent_expressions, b.personality.personality_keywords,
                 b.knowledge.procedures, b.knowledge.equipment, b.knowledge.processes,
                 b.knowledge.technical_terms,
                 b.customer_insights.frequent_questions, b.customer_insights.customer_feedback,
                 b.customer_insights.pain_points, b.customer_insights.success_stories,
                 b.customer_insights.target_demographics,
                 b.hospital_strengths.competitive_advantages,
                 b.hospital_strengths.unique_services,
                 b.hospital_strengths.equipment_advantages,
                 b.hospital_strengths.location_benefits, b.hospital_strengths.team_strengths}

\* the empty text: the default placeholder of SafeInterviewAnalyzer, and a BGN
\* result whose only specialty areas are the ones the AI merge added
C13_Witness ==
    /\ u_pc = "analyzed"
    /\ u_arg.text = <<>>
    /\ u_arg.use_ai_enhancement
    /\ u_res.safe = Safe_create_default_result
    /\ u_res.safe.customer_insights.customer_feedback = <<>>
    /\ Len(u_res.bgn.employee.specialty_areas) = 2
    /\ u_res.bgn.employee.career_history = <<>>

\* C14: after a merge that completes, specialty_areas and frequent_expressions
\* are each the duplicate-free union of the pattern-extracted values and the
\* AI-supplied values, and a name pattern extraction had set is unchanged.
C14_MergeIsUnion ==
    (/\ u_pc = "analyzed"
     /\ u_arg.use_ai_enhancement
     /\ (u_arg.ai.kind = "none"
         \/ (u_arg.ai.employee # "other" /\ u_arg.ai.personality # "other"))) =>
        LET cleaned == BGN_preprocess_text(u_arg.text)
            employee == BGN_extract_employee_info(cleaned)
            personality == BGN_analyze_personality(cleaned)
            areas == u_res.bgn.employee.specialty_areas
            phrases == u_res.bgn.personality.frequent_expressions
        IN  /\ Range(areas) = Range(employee.specialty_areas) \cup Range(u_arg.ai.specialty_areas)
            /\ Cardinality(Range(areas)) = Len(areas)
            /\ Range(phrases) = Range(personality.frequent_expressions)
                                \cup Range(u_arg.ai.frequent_expressions)
            /\ Cardinality(Range(phrases)) = Len(phrases)
            /\ (employee.name # <<>> => u_res.bgn.employee.name = employee.name)

\* the Scenario A text merged with an AI result that names someone else, repeats
\* the extracted specialty area and adds one, and supplies a phrase twice
C14_Witness ==
    /\ u_pc = "analyzed"
    /\ u_arg.use_ai_enhancement
    /\ u_arg.ai.employee = "object" /\ u_arg.ai.personality = "object"
    /\ u_arg.ai.name = <<"gim", "min", "su">>
    /\ Len(u_arg.ai.specialty_areas) = 2
    /\ Len(u_arg.ai.frequent_expressions) = 3
    /\ u_res.bgn.employee.name = <<"ii", "ye", "na">>
    /\ Len(u_res.bgn.employee.specialty_areas) = 2
    /\ Len(u_res.bgn.personality.frequent_expressions) = 2

\* --------------------------------------------------- employee extraction runs
\* the Scenario A shape: "저는 <name> <title>입니다. 홍보팀에서 <N>년째 ..." with
\* the keywords 대학 and 제휴 in the second sentence
ScenarioA(name, title, years, ending) ==
    <<"jeo", "neun", " ">> \o name \o <<" ">> \o title \o <<"ip", "ni", "da", ".", " ", "hong", "bo", "tim", "ee", "seo", " ">> \o years \o <<"nyeon", "jjae", " ">> \o ending

e_Inputs ==
    /\ u_pc = "idle"
    /\ u_arg \in [name : { <<"ii", "ye", "na">>, <<"gim", "min">>, <<"nam", "gung", "min", "su">> },
                  title : { <<"dae", "ri">>, <<"gwa", "jang">>, <<"tim", "jang">>, <<"bu", "jang">> },
                  years : {<<"1", "0">>, <<"3">>, <<"2", "5">>},
                  ending : { <<"geun", "mu", "ha", "myeo", " ", "dae", "hak", " ", "je", "hyu", "reul", " ", "dam", "dang", "hap", "ni", "da", ".">>,
                             <<"dae", "hak", "gwa", " ", "je", "hyu", " ", "eop", "mu", "reul", " ", "math", "go", " ", "iss", "seup", "ni", "da", ".">> }]
    /\ u_res = NoResult

\* SafeInterviewAnalyzer._extract_employee_info and
\* BGNInterviewAnalyzer._extract_employee_info called on the text
ExtractEmployee ==
    /\ u_pc = "idle"
    /\ LET text == ScenarioA(u_arg.name, u_arg.title, u_arg.years, u_arg.ending)
       IN  u_res' = [safe |-> Safe_extract_employee_info(text),
                     bgn |-> BGN_extract_employee_info(text)]
    /\ u_pc' = "extracted"
    /\ UNCHANGED u_arg

\* C15: for an input of the Scenario A shape, both _extract_employee_info
\* implementations yield the introduced name, department 홍보팀, experience_years
\* N and a specialty_areas entry "대학 제휴".
C15_ScenarioAExtraction ==
    u_pc = "extracted" =>
        \A e \in {u_res.safe, u_res.bgn} :
            /\ e.name = u_arg.name
            /\ e.department = <<"hong", "bo", "tim">>
            /\ e.experience_years = ToInt(u_arg.years)
            /\ <<"dae", "hak", " ", "je", "hyu">> \in Range(e.specialty_areas)

\* ------------------------------------------------------- tone analysis runs
\* the phrases tone texts are made of: markers of four tone categories
ToneParts ==
    { <<"sa", "sil", " ">>, <<"jin", "jja", " ">>, <<"sil", "je", "ro", " ">>, <<"gyeong", "heom", "sang", " ">>, <<"pyeon", "ha", "ge", " ">>, <<"cheon", "cheon", "hi", " ">>, <<"jeong", "hwak", "han", " ">> }

ToneTexts == {Concat(ps) : ps \in SeqsUpTo(ToneParts, MaxToneParts)}

t_Inputs ==
    /\ u_pc = "idle"
    /\ u_arg \in ToneTexts
    /\ u_res = NoResult

\* SafeInterviewAnalyzer._analyze_personality and
\* BGNInterviewAnalyzer._analyze_personality called on the text
AnalyzeTone ==
    /\ u_pc = "idle"
    /\ u_res' = [safe |-> Safe_analyze_personality(u_arg),
                 bgn |-> BGN_analyze_personality(u_arg)]
    /\ u_pc' = "toned"
    /\ UNCHANGED u_arg

\* the occurrences of the markers in the text, summed
RECURSIVE TotalOccurrences(_, _)
TotalOccurrences(text, markers) ==
    IF markers = <<>> THEN 0
    ELSE Count(text, Head(markers)) + TotalOccurrences(text, Tail(markers))

\* the first category of the table with the highest total, <<>> when no marker occurs
DominantTone(text, tbl) ==
    LET Total(k) == TotalOccurrences(text, tbl[k].markers)
        best == CHOOSE k \in 1..Len(tbl) :
                    /\ \A j \in 1..Len(tbl) : Total(j) <= Total(k)
                    /\ \A j \in 1..(k - 1) : Total(j) < Total(k)
    IN  IF Total(best) = 0 THEN <<>> ELSE tbl[best].style

\* C16: tone_style is the category whose markers have the highest total number
\* of occurrences in the text, the first such category in table order on a
\* tie, and empty only when no marker occurs.
C16_ToneByOccurrences ==
    u_pc = "toned" =>
        /\ u_res.safe.tone_style = DominantTone(u_arg, Safe_personality_markers)
        /\ u_res.bgn.tone_style = DominantTone(u_arg, BGN_personality_markers)

\* ----------------------------------- BGNImageGenerator (image_generator.py)
\* what one pass of the retry loop's try block can do: the image is generated
\* and downloaded; it is generated and _download_and_process_image returns None;
\* the API call raises openai.APIError (rate limit or other); something raises
\* another exception
ImageOutcomes == {"image", "no_image", "rate_limit", "api_error", "error"}

\* `if image:` that never holds
Image_downloaded_never(outcome) == FALSE

\* image = self._download_and_process_image(image_url); `if image:`
Image_downloaded(outcome) == outcome = "image"

ig_vars == <<ig_pc, ig_retry, ig_attempt, ig_calls, ig_image, ig_meta, ig_count, ig_failed, ig_ret>>

\* BGNImageGenerator.__init__
ig_Idle ==
    /\ ig_pc = "idle"
    /\ ig_retry = 0
    /\ ig_attempt = 0
    /\ ig_calls = 0
    /\ ig_image = "None"
    /\ ig_meta = [attempts |-> 0, success |-> FALSE]
    /\ ig_count = 0
    /\ ig_failed = 0
    /\ ig_ret = NoResult

\* generate_medical_image is called: the prompt is prepared and metadata built
generate_medical_image_enter ==
    /\ ig_pc \in {"idle", "returned"}
    /\ ig_count + ig_failed < MaxImageCalls
    /\ \E r \in 0..MaxRetryAttempts : ig_retry' = r
    /\ ig_attempt' = 0
    /\ ig_calls' = 0
    /\ ig_image' = "None"
    /\ ig_meta' = [attempts |-> 0, success |-> FALSE]
    /\ ig_ret' = NoResult
    /\ ig_pc' = "loop"
    /\ UNCHANGED <<ig_count, ig_failed>>

\* one pass of `for attempt in range(retry_attempts)`: the API call, the
\* download, and either the return of the image or the except clauses (their
\* sleeps take time and change nothing)
generate_medical_image_attempt ==
    /\ ig_pc = "loop"
    /\ ig_attempt < ig_retry
    /\ \E outcome \in ImageOutcomes :
           /\ ig_calls' = ig_calls + 1
           /\ ig_image' = IF outcome = "image" THEN "image" ELSE "None"
           /\ IF Image_downloaded(outcome)
              THEN /\ ig_count' = ig_count + 1
                   /\ ig_meta' = [attempts |-> ig_attempt + 1, success |-> TRUE]
                   /\ ig_ret' = [image |-> "image", image_url |-> "url"]
                   /\ ig_pc' = "returned"
                   /\ UNCHANGED ig_attempt
              ELSE /\ ig_meta' = [ig_meta EXCEPT !.attempts = ig_attempt + 1]
                   /\ ig_attempt' = ig_attempt + 1
                   /\ UNCHANGED <<ig_count, ig_ret, ig_pc>>
    /\ UNCHANGED <<ig_retry, ig_failed>>

\* the loop is exhausted: one entry appended to failed_generations,
\* return None, None, metadata
generate_medical_image_fail ==
    /\ ig_pc = "loop"
    /\ ig_attempt >= ig_retry
    /\ ig_failed' = ig_failed + 1
    /\ ig_ret' = [image |-> "None", image_url |-> "None"]
    /\ ig_pc' = "returned"
    /\ UNCHANGED <<ig_retry, ig_attempt, ig_calls, ig_image, ig_meta, ig_count>>

\* the steps inside one call of generate_medical_image
generate_medical_image_step == generate_medical_image_attempt \/ generate_medical_image_fail

generate_medical_image == generate_medical_image_enter \/ generate_medical_image_step

\* C17: generate_medical_image always terminates after at most retry_attempts
\* image-API calls; it stops at the first attempt that yields a downloaded image
\* and returns it with success = True and attempts = the attempts made; when
\* every attempt fails it returns (None, None, metadata) with success = False
\* and has appended exactly one entry to failed_generations.
C17_ImageRetryBounded ==
    /\ [](/\ ig_calls <= ig_retry
          /\ ig_pc = "loop" => ig_image = "None" /\ ~ig_meta.success
          /\ (ig_pc = "returned" /\ ig_ret.image # "None") =>
                 /\ ig_image = ig_ret.image
                 /\ ig_meta.success
                 /\ ig_meta.attempts = ig_calls
          /\ (ig_pc = "returned" /\ ig_ret.image = "None") =>
                 /\ ig_ret.image_url = "None"
                 /\ ~ig_meta.success
                 /\ ig_meta.attempts = ig_retry
                 /\ ig_calls = ig_retry)
    /\ [][(ig_pc = "loop" /\ ig_pc' = "returned") =>
              IF ig_ret'.image = "None"
              THEN ig_failed' = ig_failed + 1 /\ ig_count' = ig_count
              ELSE ig_failed' = ig_failed /\ ig_count' = ig_count + 1]_vars
    /\ [][(ig_pc' = "loop") => (ig_failed' = ig_failed /\ ig_count' = ig_count)]_vars
    /\ (ig_pc = "loop" ~> ig_pc = "returned")

\* a call with retry_attempts = 3 that failed twice and returned the image of
\* the third attempt, after an earlier call that failed throughout
C17_Witness ==
    /\ ig_pc = "returned"
    /\ ig_retry = 3
    /\ ig_ret.image = "image"
    /\ ig_meta.attempts = 3
    /\ ig_meta.success
    /\ ig_failed = 1
    /\ ig_count = 1

\* ----------------------------------- BGNWordPressClient (wordpress_client.py)
\* what one pass of the retry loop's try block can do: _prepare_image_data
\* raises (no upload call is made); the upload call raises; the upload call
\* returns a response without the expected keys; the upload call returns and
\* the result is built
UploadOutcomes == {"prepare_error", "upload_error", "bad_response", "uploaded"}

\* `if attempt < self.config.max_retries - 1` holding on every pass
Upload_is_last_attempt_never(attempt, max_retries) == FALSE

\* the else branch of `if attempt < self.config.max_retries - 1`
Upload_is_last_attempt(attempt, max_retries) == ~(attempt < max_retries - 1)

w_vars == <<w_pc, w_max, w_attempt, w_calls, w_count, w_failed, w_ret>>

\* BGNWordPressClient.__init__ with a WordPressConfig
w_Idle ==
    /\ w_pc = "idle"
    /\ w_max = 1
    /\ w_attempt = 0
    /\ w_calls = 0
    /\ w_count = 0
    /\ w_failed = <<>>
    /\ w_ret = NoResult

\* the client is built with a config whose max_retries is a positive retry count
\* (3 unless the config says otherwise)
w_Configured ==
    /\ w_pc = "idle"
    /\ w_max \in 1..MaxRetries
    /\ w_attempt = 0
    /\ w_calls = 0
    /\ w_count = 0
    /\ w_failed = <<>>
    /\ w_ret = NoResult

\* the client is built with any config: max_retries is an int field that
\* nothing validates, so zero and negative values are included
w_AnyConfig ==
    /\ w_pc = "idle"
    /\ w_max \in (-1)..MaxRetries
    /\ w_attempt = 0
    /\ w_calls = 0
    /\ w_count = 0
    /\ w_failed = <<>>
    /\ w_ret = NoResult

\* upload_image_with_retry is called; with range(self.config.max_retries) empty
\* the loop body never runs and the function ends without a return statement
\* (returns None)
upload_image_with_retry_enter ==
    /\ w_pc \in {"idle", "returned"}
    /\ w_count + Len(w_failed) < MaxUploads
    /\ w_attempt' = 0
    /\ w_calls' = 0
    /\ IF w_max <= 0
       THEN /\ w_ret' = [kind |-> "None", success |-> FALSE, media_id |-> 0]
            /\ w_pc' = "returned"
       ELSE /\ w_ret' = NoResult
            /\ w_pc' = "loop"
    /\ UNCHANGED <<w_max, w_count, w_failed>>

\* one pass of `for attempt in range(self.config.max_retries)`: the try block
\* and, when it raises, the except clause; after the last pass the function
\* ends without a return statement (returns None)
upload_image_with_retry_attempt ==
    /\ w_pc = "loop"
    /\ \E outcome \in UploadOutcomes :
           /\ w_calls' = IF outcome = "prepare_error" THEN w_calls ELSE w_calls + 1
           /\ IF outcome = "uploaded"
              THEN /\ w_count' = w_count + 1
                   /\ w_ret' = [kind |-> "MediaUploadResult", success |-> TRUE, media_id |-> 1]
                   /\ w_pc' = "returned"
                   /\ UNCHANGED <<w_attempt, w_failed>>
              ELSE IF Upload_is_last_attempt(w_attempt, w_max)
              THEN /\ w_failed' = Append(w_failed, "image_upload")
                   /\ w_ret' = [kind |-> "MediaUploadResult", success |-> FALSE, media_id |-> 0]
                   /\ w_pc' = "returned"
                   /\ UNCHANGED <<w_attempt, w_count>>
              ELSE IF w_attempt + 1 < w_max
              THEN /\ w_attempt' = w_attempt + 1
                   /\ UNCHANGED <<w_count, w_failed, w_ret, w_pc>>
              ELSE /\ w_attempt' = w_attempt + 1
                   /\ w_ret' = [kind |-> "None", success |-> FALSE, media_id |-> 0]
                   /\ w_pc' = "returned"
                   /\ UNCHANGED <<w_count, w_failed>>
    /\ UNCHANGED w_max

upload_image_with_retry == upload_image_with_retry_enter \/ upload_image_with_retry_attempt

\* C18: upload_image_with_retry makes at most config.max_retries upload calls
\* and never retries after a success; a successful attempt adds exactly one to
\* upload_count and returns a MediaUploadResult with success = True; when all
\* max_retries attempts fail it returns a MediaUploadResult with success =
\* False and media_id = 0 and appends exactly one "image_upload" entry to
\* failed_operations; it does not raise.
C18_UploadRetryBounded ==
    /\ [](/\ w_calls <= w_max
          /\ w_attempt < w_max
          /\ w_pc = "returned" =>
                 /\ w_ret.kind = "MediaUploadResult"
                 /\ (~w_ret.success => w_ret.media_id = 0 /\ w_attempt = w_max - 1))
    /\ [][(w_pc = "loop" /\ w_pc' = "returned") =>
              IF w_ret'.success
              THEN /\ w_count' = w_count + 1 /\ w_failed' = w_failed
                   /\ w_calls' = w_calls + 1
              ELSE /\ w_count' = w_count
                   /\ w_failed' = Append(w_failed, "image_upload")]_vars
    /\ [][(w_pc' = "loop") => (w_count' = w_count /\ w_failed' = w_failed)]_vars
    /\ [][(w_pc = "returned") => (w_calls' = 0 \/ w_calls' = w_calls)]_vars

\* a client with max_retries = 3: one upload that succeeded on its third
\* attempt and one that failed three times
C18_Witness ==
    /\ w_pc = "returned"
    /\ w_max = 3
    /\ w_count = 1
    /\ w_failed = <<"image_upload">>
    /\ w_ret.success
    /\ w_attempt = 2
    /\ w_calls = 3

\* C25: upload_image_with_retry returns a MediaUploadResult, never None, for
\* every configuration, config.max_retries <= 0 included, so that
\* create_post_with_media can read upload_result.success.
C25_UploadNeverNone ==
    w_pc = "returned" => w_ret.kind = "MediaUploadResult"

\* ------------------ SafeGoogleSheetsClient, BGNSheetsClient.add_content_row
\* the API calls of add_content_row that can raise, in the order they are made
SheetFaults ==
    {"none", "worksheet", "add_worksheet", "update_header", "update_descriptions",
     "format_header", "get_all_values", "append"}

\* the rows a worksheet can hold: the header row, the row of header descriptions
\* (BGNSheetsClient), the row_data of call number n, an empty row
HeaderRow == [kind |-> "header", call |-> 0]

DescriptionRow == [kind |-> "descriptions", call |-> 0]

DataRow(n) == [kind |-> "data", call |-> n]

BlankRow == [kind |-> "blank", call |-> 0]

\* worksheet.update('A<n>', [row]): row n is written, whatever it held
SetRow(rows, n, row) ==
    [i \in 1..Max(Len(rows), n) |-> IF i = n THEN row ELSE IF i <= Len(rows) THEN rows[i] ELSE BlankRow]

s_vars == <<s_impl, s_exists, s_rows, s_created, s_cached, s_calls, s_ok, s_ret>>

s_Idle ==
    /\ s_impl = "safe"
    /\ s_exists = FALSE
    /\ s_rows = <<>>
    /\ s_created = 0
    /\ s_cached = FALSE
    /\ s_calls = 0
    /\ s_ok = <<>>
    /\ s_ret = NoResult

\* a client of either class connected to a spreadsheet without the tracking
\* worksheet "콘텐츠 관리"
s_Connected ==
    /\ s_impl \in {"safe", "bgn"}
    /\ s_exists = FALSE
    /\ s_rows = <<>>
    /\ s_created = 0
    /\ s_cached = FALSE
    /\ s_calls = 0
    /\ s_ok = <<>>
    /\ s_ret = NoResult

\* SafeGoogleSheetsClient._create_main_worksheet followed by the rest of
\* add_content_row, as the list of the API calls made until fault raises
\* (all of them when it does not)
Safe_sheet_calls(exists, fault) ==
    LET plan == <<"worksheet">>
                \o (IF exists THEN <<>>
                    ELSE <<"add_worksheet", "update_header", "format_header">>)
                \o <<"append">>
        stop == {i \in 1..Len(plan) : plan[i] = fault}
    IN  IF stop = {} THEN [done |-> plan, raised |-> FALSE]
        ELSE [done |-> SubSeq(plan, 1, MinOf(stop) - 1), raised |-> TRUE]

\* SafeGoogleSheetsClient.add_content_row: call number s_calls + 1
Safe_add_content_row ==
    /\ s_impl = "safe"
    /\ s_calls < MaxSheetCalls
    /\ \E fault \in SheetFaults :
           LET r == Safe_sheet_calls(s_exists, fault)
               did(c) == \E i \in 1..Len(r.done) : r.done[i] = c
               rows1 == IF did("update_header") THEN SetRow(s_rows, 1, HeaderRow) ELSE s_rows
           IN  /\ s_exists' = (s_exists \/ did("add_worksheet"))
               /\ s_created' = s_created + (IF did("add_worksheet") THEN 1 ELSE 0)
               \* worksheet.append_row(row_data): after the last row that holds values
               /\ s_rows' = IF did("append") THEN Append(rows1, DataRow(s_calls + 1)) ELSE rows1
               /\ s_ok' = IF r.raised THEN s_ok ELSE Append(s_ok, s_calls + 1)
               /\ s_ret' = ~r.raised
    /\ s_calls' = s_calls + 1
    /\ UNCHANGED <<s_impl, s_cached>>

\* BGNSheetsClient.setup_main_worksheet and the rest of add_content_row, as the
\* list of the API calls made until fault raises.  An exception inside
\* setup_main_worksheet is swallowed there and the lookup
\* self.worksheets[worksheet_name] raises KeyError next.
BGN_sheet_calls(cached, exists, fault) ==
    LET plan == (IF cached THEN <<>>
                 ELSE <<"worksheet">>
                      \o (IF exists THEN <<>> ELSE <<"add_worksheet">>)
                      \o <<"update_header", "update_descriptions", "format_header", "cache">>)
                \o <<"get_all_values", "append">>
        stop == {i \in 1..Len(plan) : plan[i] = fault}
    IN  IF stop = {} THEN [done |-> plan, raised |-> FALSE]
        ELSE [done |-> SubSeq(plan, 1, MinOf(stop) - 1), raised |-> TRUE]

\* BGNSheetsClient.add_content_row: call number s_calls + 1
BGN_add_content_row ==
    /\ s_impl = "bgn"
    /\ s_calls < MaxSheetCalls
    /\ \E fault \in SheetFaults :
           LET r == BGN_sheet_calls(s_cached, s_exists, fault)
               did(c) == \E i \in 1..Len(r.done) : r.done[i] = c
               rows1 == IF did("update_header") THEN SetRow(s_rows, 1, HeaderRow) ELSE s_rows
               rows2 == IF did("update_descriptions") THEN SetRow(rows1, 2, DescriptionRow)
                        ELSE rows1
           IN  /\ s_exists' = (s_exists \/ did("add_worksheet"))
               /\ s_created' = s_created + (IF did("add_worksheet") THEN 1 ELSE 0)
               /\ s_cached' = (s_cached \/ did("cache"))
               \* next_row = len(worksheet.get_all_values()) + 1; update(f'A{next_row}', ...)
               /\ s_rows' = IF did("append") THEN SetRow(rows2, Len(rows2) + 1, DataRow(s_calls + 1))
                            ELSE rows2
               /\ s_ok' = IF r.raised THEN s_ok ELSE Append(s_ok, s_calls + 1)
               /\ s_ret' = ~r.raised
    /\ s_calls' = s_calls + 1
    /\ UNCHANGED s_impl

add_content_row == Safe_add_content_row \/ BGN_add_content_row

\* the rows of the worksheet that are not header rows
DataRows(rows) ==
    LET data == SelectSeq(rows, LAMBDA r : r.kind = "data")
    IN  [i \in 1..Len(data) |-> data[i].call]

\* C19: starting without the tracking worksheet, after any sequence of
\* add_content_row calls the worksheet has been created at most once, its first
\* row is the fixed header row, it holds exactly one data row per call that
\* returned True, in call order, nothing written earlier is overwritten, and
\* every call returns True or False (none raises); for both clients.
C19_SheetRowsAppendOnly ==
    /\ [](/\ s_created <= 1
          /\ s_rows # <<>> => s_rows[1] = HeaderRow
          /\ DataRows(s_rows) = s_ok
          /\ s_calls > 0 => s_ret \in BOOLEAN)
    /\ [][\A i \in 1..Len(s_rows) : s_rows'[i] = s_rows[i]]_vars

\* -------------------------------------------------------------- tag runs
\* list(set(tags))[:n]: the first n (all, when fewer) elements of the set S in
\* any of the orders the set's iteration can give
RECURSIVE SliceOfSet(_, _)
SliceOfSet(S, n) ==
    IF n = 0 \/ S = {} THEN {<<>>}
    ELSE UNION { {<<x>> \o rest : rest \in SliceOfSet(S \ {x}, n - 1)} : x \in S }

\* the lists _generate_tags may return
Safe_generate_tags_return(analysis) ==
    UNION { SliceOfSet(kept, MaxTags) : kept \in Safe_generate_tags(analysis) }

\* the specialty areas of the analyses whose tags are generated: none, one
\* area, 대학 twice, 대학 and 출장, an area without tags next to one with tags
TagSpecialties ==
    { <<>>, << <<"dae", "hak", " ", "je", "hyu">> >>, << <<"chul", "jang", "geom", "jin">> >>, << <<"baek", "nae", "jang">> >>, << <<"dae", "hak", " ", "chul", "jang", "geom", "jin">> >>,
      << <<"dae", "hak", " ", "je", "hyu">>, <<"dae", "hak", " ", "je", "hyu">> >>, << <<"dae", "hak", " ", "je", "hyu">>, <<"chul", "jang", "geom", "jin">> >>,
      << <<"baek", "nae", "jang">>, <<"chul", "jang", "geom", "jin">> >> }

j_Inputs ==
    /\ u_pc = "idle"
    /\ u_arg \in TagSpecialties
    /\ u_res = NoResult

\* generate_content calls self._generate_tags(analysis_result)
GenerateTags ==
    /\ u_pc = "idle"
    /\ LET analysis == [Safe_create_default_result EXCEPT !.employee.specialty_areas = u_arg]
       IN  \E tags \in Safe_generate_tags_return(analysis) : u_res' = tags
    /\ u_pc' = "tagged"
    /\ UNCHANGED u_arg

\* the union of the base tags and the tags of the specialties: 대학생, 시력교정,
\* 학생할인 for an area naming 대학; 직장인, 출장검진, 정밀검사 for an area naming
\* 출장 and not 대학
TagUnion(specialty_areas) ==
    LET named(w) == {i \in 1..Len(specialty_areas) : Contains(specialty_areas[i], w)}
    IN  { <<"an", "gwa">>, <<"nun", "geon", "gang">>, HOSPITAL_NAME }
        \cup (IF named(<<"dae", "hak">>) # {} THEN { <<"dae", "hak", "saeng">>, <<"si", "ryeok", "gyo", "jeong">>, <<"hak", "saeng", "hal", "in">> } ELSE {})
        \cup (IF named(<<"chul", "jang">>) \ named(<<"dae", "hak">>) # {}
              THEN { <<"jik", "jang", "in">>, <<"chul", "jang", "geom", "jin">>, <<"jeong", "mil", "geom", "sa">> } ELSE {})

\* C20: _generate_tags returns a list without duplicates and with at most 6
\* entries, each from the union of the base tags {안과, 눈건강, hospital name}
\* and the specialty-derived tags; when the union has at most 6 elements the
\* result is exactly the union.
C20_TagsDedupedAndCapped ==
    u_pc = "tagged" =>
        LET union == TagUnion(u_arg)
        IN  /\ \A i, j \in 1..Len(u_res) : i # j => u_res[i] # u_res[j]
            /\ Len(u_res) <= 6
            /\ Range(u_res) \subseteq union
            /\ (Cardinality(union) <= 6 => Range(u_res) = union)

\* two 대학 areas put 대학생, 시력교정, 학생할인 in the list twice and the six
\* distinct tags are returned
C20_Witness ==
    /\ u_pc = "tagged"
    /\ u_arg = << <<"dae", "hak", " ", "je", "hyu">>, <<"dae", "hak", " ", "je", "hyu">> >>
    /\ Len(Safe_tags_list([Safe_create_default_result EXCEPT !.employee.specialty_areas = u_arg])) = 9
    /\ Len(u_res) = 6
    /\ Range(u_res) = TagUnion(u_arg)

\* both kinds of area: nine distinct tags, six of them returned
C20_WitnessCapped ==
    /\ u_pc = "tagged"
    /\ u_arg = << <<"dae", "hak", " ", "je", "hyu">>, <<"chul", "jang", "geom", "jin">> >>
    /\ Cardinality(TagUnion(u_arg)) = 9
    /\ Len(u_res) = 6

\* --------------------------------- execute_automation_rest_api step order
\* the place of each step in the function's text
StepOrder == <<"analysis", "content", "images", "wordpress", "sheets">>

StepIndex(step) == CHOOSE i \in 1..Len(StepOrder) : StepOrder[i] = step

\* C21: the steps of execute_automation_rest_api run in the order analysis,
\* content generation, image generation, WordPress posting, Sheets append, each
\* after the previous one has finished; when analysis or content generation
\* raises no later step runs (no image, no post, no row); the row is appended
\* only after the WordPress attempt has finished and carries its status and URL.
C21_StepsInOrder ==
    /\ \A i, j \in 1..Len(p_trace) :
           i < j => StepIndex(p_trace[i].step) < StepIndex(p_trace[j].step)
    /\ \A i \in 1..Len(p_trace) :
           /\ p_trace[i].step = "content" => p_trace[1] = Ran("analysis", FALSE)
           /\ p_trace[i].step \in {"images", "wordpress", "sheets"} =>
                  /\ p_trace[1] = Ran("analysis", FALSE)
                  /\ p_trace[2] = Ran("content", FALSE)
                  /\ p_analysis # NoResult
                  /\ p_generated # NoResult
           /\ (p_trace[i].step \in {"analysis", "content"} /\ p_trace[i].raised) =>
                  /\ i = Len(p_trace)
                  /\ p_pc = "aborted"
                  /\ p_images = 0
                  /\ p_post = NoResult
                  /\ p_row = NoResult
           /\ p_trace[i].step = "sheets" => p_status.wp # "pending" /\ p_status.images # "pending"
    /\ p_row # NoResult =>
           /\ p_trace[Len(p_trace)] = Ran("sheets", FALSE)
           /\ p_status.wp # "pending"
           /\ p_status.wp = "complete" => p_row = [status |-> p_publish, post_url |-> "link"]
           /\ p_status.wp = "failed" => p_row = [status |-> "failed", post_url |-> ""]
           /\ p_status.wp \in {"skipped", "raised"} => p_row.post_url = ""

\* all five steps ran, the post was published and the row carries its status
\* and link
C21_Witness ==
    /\ p_pc = "displayed"
    /\ [i \in 1..Len(p_trace) |-> p_trace[i].step] = StepOrder
    /\ p_publish = "publish"
    /\ p_post = [success |-> TRUE, status |-> "publish", post_url |-> "link"]
    /\ p_row = [status |-> "publish", post_url |-> "link"]
    /\ p_images > 0

\* content generation raised: the function returned with no image, post or row
C21_WitnessAborted ==
    /\ p_pc = "aborted"
    /\ p_trace = <<Ran("analysis", FALSE), Ran("content", TRUE)>>
    /\ p_opts = [images |-> TRUE, wp |-> TRUE, sheets |-> TRUE]
    /\ p_row = NoResult

\* ---------------------------------------------- AI enhancement fallback
\* C22: when the AI enhancement does not succeed (the call raises or its reply
\* is not valid JSON, so that _ai_enhanced_analysis returns {}; or
\* _merge_analysis_results hits an error part-way), analyze_interview returns
\* the employee, personality, knowledge, customer_insights and
\* hospital_strengths it returns for the same text with
\* use_ai_enhancement=False.
C22_AiFailureKeepsBasic ==
    (/\ u_pc = "analyzed"
     /\ u_arg.use_ai_enhancement
     /\ (u_arg.ai.kind = "none" \/ u_arg.ai.employee = "other" \/ u_arg.ai.personality = "other")) =>
        \E basic \in BGN_analyze_interview(u_arg.text, FALSE, u_arg.ai) :
            /\ u_res.bgn.employee = basic.employee
            /\ u_res.bgn.personality = basic.personality
            /\ u_res.bgn.knowledge = basic.knowledge
            /\ u_res.bgn.customer_insights = basic.customer_insights
            /\ u_res.bgn.hospital_strengths = basic.hospital_strengths

\* ---------------------- create_post (main.py), create_post_with_media
\* the media id WordPress returns for the upload of images[i - 1]
MediaId(i) == 100 + i

\* the names the code of wordpress_client.py can read: the module's imports and
\* globals (lines 17-57) and _build_post_html's parameters and locals
BGN_names_in_scope ==
    {"base64", "requests", "mimetypes", "Image", "io", "os", "sys", "Dict", "List",
     "Optional", "Tuple", "Any", "Union", "datetime", "timedelta", "logging",
     "dataclass", "time", "json", "Client", "WordPressPost", "WordPressPage", "NewPost",
     "EditPost", "GetPost", "DeletePost", "UploadFile", "GetMediaLibrary", "GetTerms",
     "GetUserInfo", "xmlrpc_client", "WORDPRESS_AVAILABLE", "Settings",
     "GeneratedContent", "logger",
     "self", "content_data", "uploaded_media", "html", "styled_html"}

\* the first name read by each replacement field {...} of the f-string
\* assigned to styled_html, in order: the eight fields of the markup, then the
\* five CSS rule bodies of the <style> element, whose braces are not doubled
StyledHtmlFields ==
    <<"content_data", "content_data", "html", "Settings", "Settings", "Settings",
      "content_data", "Settings", "font", "background", "display", "background",
      "background">>

\* BGNWordPressClient._build_post_html(content_data, uploaded_media), where h2
\* is the number of </h2> tags of content_data.content_html: whether it raises
\* (NameError), and the media whose <img> element is in the HTML returned
BGN_build_post_html(h2, uploaded_media) ==
    LET n == Len(uploaded_media)
        \* styled_html.replace('</h2>', '</h2>' + featured_img_html, 1)
        first == IF n >= 1 /\ h2 >= 1 THEN <<uploaded_media[1]>> ELSE <<>>
        \* for i, media in enumerate(uploaded_media[1:], 2): if i <= h2_count: re.finditer
        placed == {i \in 2..n : i <= h2}
    IN  IF \E k \in 1..Len(StyledHtmlFields) : StyledHtmlFields[k] \notin BGN_names_in_scope
        THEN [raised |-> TRUE, imgs |-> <<>>]
        ELSE IF placed # {} /\ "re" \notin BGN_names_in_scope
        THEN [raised |-> TRUE, imgs |-> <<>>]
        ELSE [raised |-> FALSE,
              imgs |-> first \o SelectSeq(SubSeq(uploaded_media, 2, n),
                                          LAMBDA m : \E i \in placed : uploaded_media[i] = m)]

\* WordPressRestAPIClient._build_post_html: every uploaded media is appended
Safe_build_post_html(h2, uploaded_media) ==
    [raised |-> FALSE, imgs |-> uploaded_media]

\* the media ids of the uploads that succeeded, in order
UploadedMedia(uploads) ==
    LET ids == [i \in 1..Len(uploads) |-> IF uploads[i] THEN MediaId(i) ELSE 0]
    IN  SelectSeq(ids, LAMBDA m : m # 0)

\* featured_image_id after the upload loop: set when i == 0 and the upload succeeded
FeaturedImageId(uploads) ==
    IF Len(uploads) >= 1 /\ uploads[1] THEN MediaId(1) ELSE 0

\* WordPressRestAPIClient.create_post: uploads[i] tells whether upload_image of
\* images[i - 1] succeeds; send is what POST /posts does ("created": 201,
\* "rejected": another status code, "raise": an exception).  post is the
\* post_data WordPress stored (featured 0: no featured_media entry).
Safe_create_post(uploads, h2, send) ==
    LET html == Safe_build_post_html(h2, UploadedMedia(uploads))
        featured == FeaturedImageId(uploads)
    IN  IF html.raised \/ send # "created"
        THEN [html |-> html, post |-> NoResult,
              ret |-> [success |-> FALSE, status |-> "failed", featured_image_id |-> 0]]
        ELSE [html |-> html, post |-> [featured |-> featured, imgs |-> html.imgs],
              ret |-> [success |-> TRUE, status |-> "draft", featured_image_id |-> 0]]

\* BGNWordPressClient.create_post_with_media: send is what
\* self.client.call(NewPost(post)) does ("created" or "raise"; an XML-RPC fault
\* is an exception)
BGN_create_post_with_media(uploads, h2, send) ==
    LET html == BGN_build_post_html(h2, UploadedMedia(uploads))
        featured == FeaturedImageId(uploads)
    IN  IF html.raised \/ send # "created"
        THEN [html |-> html, post |-> NoResult,
              ret |-> [success |-> FALSE, status |-> "failed", featured_image_id |-> 0]]
        ELSE [html |-> html, post |-> [featured |-> featured, imgs |-> html.imgs],
              ret |-> [success |-> TRUE, status |-> "draft", featured_image_id |-> featured]]

\* a post with up to MaxPostImages images, each upload succeeding or failing,
\* and content HTML with up to MaxH2 </h2> tags, handed to either client
o_Inputs ==
    /\ u_pc = "idle"
    /\ u_arg \in [client : {"rest", "xmlrpc"},
                  uploads : SeqsUpTo(BOOLEAN, MaxPostImages),
                  h2 : 0..MaxH2,
                  send : {"created", "rejected", "raise"}]
    /\ u_res = NoResult

\* WordPressRestAPIClient.create_post(content, images, status) or
\* BGNWordPressClient.create_post_with_media(content, images)
CreatePost ==
    /\ u_pc = "idle"
    /\ u_res' = IF u_arg.client = "rest"
                THEN Safe_create_post(u_arg.uploads, u_arg.h2, u_arg.send)
                ELSE BGN_create_post_with_media(u_arg.uploads, u_arg.h2, u_arg.send)
    /\ u_pc' = "posted"
    /\ UNCHANGED u_arg

\* C23: a post created with images has the media id returned for images[0] as
\* its featured media exactly when the upload of images[0] succeeded, and has
\* no featured media when that upload failed, whatever the later uploads did;
\* for WordPressRestAPIClient.create_post and
\* BGNWordPressClient.create_post_with_media.
C23_FirstImageFeatured ==
    (u_pc = "posted" /\ u_arg.uploads # <<>> /\ u_arg.send = "created") =>
        /\ u_res.post # NoResult
        /\ u_res.post.featured = IF u_arg.uploads[1] THEN MediaId(1) ELSE 0

\* C24: for every number n >= 0 of uploaded media and every number of </h2>
\* tags in the content HTML, create_post_with_media builds its post HTML
\* without error and the HTML holds exactly one <img> element for each of the
\* n uploaded media.
C24_EveryUploadInHtml ==
    (u_pc = "posted" /\ u_arg.client = "xmlrpc") =>
        /\ ~u_res.html.raised
        /\ u_res.html.imgs = UploadedMedia(u_arg.uploads)

\* ------------------------------------- BGNWordPressClient.batch_publish_posts
\* zip(content_list, images_list): as many pairs as the shorter list has
Zip(content_list, images_list) ==
    [i \in 1..Min(Len(content_list), Len(images_list)) |->
        [content |-> content_list[i], images |-> images_list[i]]]

\* batch_publish_posts(content_list, images_list): the results list.  A content
\* is given by the number of </h2> tags of its HTML and by what WordPress does
\* with the post; an images entry by which of its uploads succeed (None and []
\* alike: no upload).  images_list is [none |-> TRUE] for None, which stands for
\* [None] * len(content_list).
BGN_batch_publish_posts(content_list, images_list) ==
    LET images == IF images_list.none THEN [i \in 1..Len(content_list) |-> <<>>]
                  ELSE images_list.list
        pairs == Zip(content_list, images)
    IN  [i \in 1..Len(pairs) |->
            BGN_create_post_with_media(pairs[i].images, pairs[i].content.h2,
                                       pairs[i].content.send).ret]

\* the contents of a batch
BatchContents == [h2 : {1}, send : {"created", "raise"}]

b_Inputs ==
    /\ u_pc = "idle"
    /\ u_arg \in {[content_list |-> c, images_list |-> l] :
                     c \in SeqsUpTo(BatchContents, MaxBatch),
                     l \in {[none |-> TRUE, list |-> <<>>]}
                           \cup {[none |-> FALSE, list |-> x] :
                                    x \in SeqsUpTo({<<>>, <<TRUE>>, <<FALSE>>}, MaxBatch)}}
    /\ Len(u_arg.images_list.list) <= Len(u_arg.content_list)
    /\ u_res = NoResult

\* client.batch_publish_posts(content_list, images_list) is called
BatchPublish ==
    /\ u_pc = "idle"
    /\ u_res' = BGN_batch_publish_posts(u_arg.content_list, u_arg.images_list)
    /\ u_pc' = "published"
    /\ UNCHANGED u_arg

\* C26: batch_publish_posts returns one PostPublishResult per element of
\* content_list, in order, whether images_list is None, as long as
\* content_list or shorter; a post that fails yields success = False and the
\* posts after it are still attempted.
C26_OneResultPerContent ==
    u_pc = "published" =>
        /\ Len(u_res) = Len(u_arg.content_list)
        /\ \A i \in 1..Len(u_res) :
               u_arg.content_list[i].send # "created" => ~u_res[i].success

\* ------------------------------------ BGNImageGenerator prompt compliance
UpperLetters ==
    <<"A", "B", "C", "D", "E", "F", "G", "H", "I", "J", "K", "L", "M", "N", "O", "P", "Q",
      "R", "S", "T", "U", "V", "W", "X", "Y", "Z">>

LowerLetters ==
    <<"a", "b", "c", "d", "e", "f", "g", "h", "i", "j", "k", "l", "m", "n", "o", "p", "q",
      "r", "s", "t", "u", "v", "w", "x", "y", "z">>

\* str.lower()
Lower(s) ==
    [i \in 1..Len(s) |->
        IF \E k \in 1..26 : UpperLetters[k] = s[i]
        THEN LowerLetters[CHOOSE k \in 1..26 : UpperLetters[k] = s[i]]
        ELSE s[i]]

\* str.replace(old, new)
Replace(s, old, new) == Join(SplitFrom(s, old, 1), new)

\* Settings.RECOMMENDED_ALTERNATIVES, in the dict's order
RECOMMENDED_ALTERNATIVES ==
    << [old |-> <<"wan", "chi">>, new |-> <<"gae", "seon">>],
       [old |-> <<"1", "0", "0", "%", " ", "seong", "gong">>, new |-> <<"noph", "eun", " ", "seong", "gong", "ryul">>],
       [old |-> <<"bu", "jak", "yong", " ", "eops", "eum">>, new |-> <<"an", "jeon", "han", " ", "si", "sul">>],
       [old |-> <<"se", "gye", " ", "choe", "go">>, new |-> <<"uu", "su", "han", " ", "gi", "sul">>] >>

\* _validate_medical_compliance: risky_phrases
risky_phrases ==
    << <<"p", "e", "r", "f", "e", "c", "t", " ", "r", "e", "s", "u", "l", "t">>, <<"g", "u", "a", "r", "a", "n", "t", "e", "e", "d", " ", "o", "u", "t", "c", "o", "m", "e">>, <<"b", "e", "s", "t", " ", "h", "o", "s", "p", "i", "t", "a", "l">>, <<"n", "u", "m", "b", "e", "r", " ", "o", "n", "e">>,
       <<"1", "0", "0", "%", " ", "s", "u", "c", "c", "e", "s", "s">>, <<"m", "i", "r", "a", "c", "u", "l", "o", "u", "s">> >>

\* _sanitize_prompt: risky_replacements, in the dict's order
risky_replacements ==
    << [old |-> <<"p", "e", "r", "f", "e", "c", "t">>, new |-> <<"p", "r", "o", "f", "e", "s", "s", "i", "o", "n", "a", "l">>],
       [old |-> <<"b", "e", "s", "t">>, new |-> <<"q", "u", "a", "l", "i", "t", "y">>],
       [old |-> <<"n", "u", "m", "b", "e", "r", " ", "o", "n", "e">>, new |-> <<"l", "e", "a", "d", "i", "n", "g">>],
       [old |-> <<"g", "u", "a", "r", "a", "n", "t", "e", "e", "d">>, new |-> <<"r", "e", "l", "i", "a", "b", "l", "e">>],
       [old |-> <<"m", "i", "r", "a", "c", "u", "l", "o", "u", "s">>, new |-> <<"e", "f", "f", "e", "c", "t", "i", "v", "e">>] >>

\* for old, new in table.items(): s = s.replace(old, new), from entry k on
RECURSIVE ReplaceEach(_, _, _)
ReplaceEach(s, table, k) ==
    IF k > Len(table) THEN s
    ELSE ReplaceEach(Replace(s, table[k].old, table[k].new), table, k + 1)

\* BGNImageGenerator._validate_medical_compliance
BGN_validate_medical_compliance(prompt) ==
    LET prompt_lower == Lower(prompt)
    IN  /\ \A k \in 1..Len(PROHIBITED_KEYWORDS) :
               ~Contains(prompt_lower, Lower(PROHIBITED_KEYWORDS[k]))
        /\ \A k \in 1..Len(risky_phrases) : ~Contains(prompt_lower, Lower(risky_phrases[k]))

\* BGNImageGenerator._sanitize_prompt
BGN_sanitize_prompt(prompt) ==
    ReplaceEach(ReplaceEach(prompt, RECOMMENDED_ALTERNATIVES, 1), risky_replacements, 1)

\* the line break and indentation between two fields of the f-string
PromptBreak == <<",", " ", "\n", " ", " ", " ", " ", " ", " ", " ", " ">>

\* BGNImageGenerator._enhance_medical_prompt(base_prompt, "medical_clean",
\* "general")
BGN_enhance_medical_prompt(base_prompt) ==
    LET fields == << base_prompt,
                     <<"h", "e", "a", "l", "t", "h", "c", "a", "r", "e", " ", "i", "n", "f", "o", "r", "m", "a", "t", "i", "o", "n", ",", " ", "m", "e", "d", "i", "c", "a", "l", " ", "e", "d", "u", "c", "a", "t", "i", "o", "n", ",", " ", "p", "a", "t", "i", "e", "n", "t", " ", "g", "u", "i", "d", "a", "n", "c", "e">>,
                     <<"c", "l", "e", "a", "n", " ", "m", "e", "d", "i", "c", "a", "l", " ", "i", "l", "l", "u", "s", "t", "r", "a", "t", "i", "o", "n", ",", " ", "p", "r", "o", "f", "e", "s", "s", "i", "o", "n", "a", "l", " ", "h", "e", "a", "l", "t", "h", "c", "a", "r", "e", " ", "s", "e", "t", "t", "i", "n", "g", ",", " ", "s", "o", "f", "t", " ", "l", "i", "g", "h", "t", "i", "n", "g", ",", " ", "m", "o", "d", "e", "r", "n", " ", "h", "o", "s", "p", "i", "t", "a", "l", " ", "e", "n", "v", "i", "r", "o", "n", "m", "e", "n", "t">>,
                     <<"e", "d", "u", "c", "a", "t", "i", "o", "n", "a", "l", " ", "p", "u", "r", "p", "o", "s", "e", " ", "o", "n", "l", "y", ",", " ", "g", "e", "n", "e", "r", "a", "l", " ", "i", "n", "f", "o", "r", "m", "a", "t", "i", "o", "n", " ", "i", "l", "l", "u", "s", "t", "r", "a", "t", "i", "o", "n">>,
                     <<"K", "o", "r", "e", "a", "n", " ", "h", "o", "s", "p", "i", "t", "a", "l", " ", "s", "t", "a", "n", "d", "a", "r", "d", ",", " ", "m", "o", "d", "e", "r", "n", " ", "K", "o", "r", "e", "a", "n", " ", "m", "e", "d", "i", "c", "a", "l", " ", "f", "a", "c", "i", "l", "i", "t", "y">>,
                     <<"s", "u", "b", "t", "l", "e", " ", "b", "l", "u", "e", " ", "a", "n", "d", " ", "w", "h", "i", "t", "e", " ", "c", "o", "l", "o", "r", " ", "s", "c", "h", "e", "m", "e", ",", " ", "p", "r", "o", "f", "e", "s", "s", "i", "o", "n", "a", "l", " ", "m", "e", "d", "i", "c", "a", "l", " ", "a", "e", "s", "t", "h", "e", "t", "i", "c", ",", " ", "K", "o", "r", "e", "a", "n", " ", "h", "o", "s", "p", "i", "t", "a", "l", " ", "s", "t", "a", "n", "d", "a", "r", "d", ",", " ">>
                         \o HOSPITAL_NAME \o <<" ", "b", "r", "a", "n", "d", "i", "n", "g">>,
                     <<"h", "i", "g", "h", " ", "r", "e", "s", "o", "l", "u", "t", "i", "o", "n", ",", " ", "p", "r", "o", "f", "e", "s", "s", "i", "o", "n", "a", "l", " ", "p", "h", "o", "t", "o", "g", "r", "a", "p", "h", "y", " ", "q", "u", "a", "l", "i", "t", "y", ",", " ", "c", "l", "e", "a", "r", " ", "a", "n", "d", " ", "d", "e", "t", "a", "i", "l", "e", "d">> >>
        text == Strip(<<"\n">> \o <<" ", " ", " ", " ", " ", " ", " ", " ">> \o Join(fields, PromptBreak)
                      \o <<"\n">> \o <<" ", " ", " ", " ", " ", " ", " ", " ">>)
        enhanced_prompt == Replace(Replace(text, <<"\n">>, <<" ">>), <<" ", " ">>, <<" ">>)
    IN  IF Len(enhanced_prompt) > 3000
        THEN SubSeq(enhanced_prompt, 1, 3000) \o <<".", ".", ".">>
        ELSE enhanced_prompt

\* generate_medical_image, up to the retry loop: the prompt every
\* images.generate call of the loop is given
BGN_prompt_sent(prompt) ==
    LET enhanced_prompt == BGN_enhance_medical_prompt(prompt)
    IN  IF ~BGN_validate_medical_compliance(enhanced_prompt)
        THEN BGN_sanitize_prompt(enhanced_prompt)
        ELSE enhanced_prompt

\* what image prompts are made of
PromptParts ==
    { <<"e", "y", "e", " ", "c", "l", "i", "n", "i", "c">>, <<" ">>, <<"p", "e", "r", "f", "e", "c", "t", " ", "r", "e", "s", "u", "l", "t">>, <<"P", "e", "r", "f", "e", "c", "t", " ", "R", "e", "s", "u", "l", "t">>, <<"1", "0", "0", "%", " ", "s", "u", "c", "c", "e", "s", "s">>,
      <<"b", "e", "s", "t", " ", "h", "o", "s", "p", "i", "t", "a", "l">>, <<"n", "u", "m", "b", "e", "r", " ", "o", "n", "e">>, <<"m", "i", "r", "a", "c", "u", "l", "o", "u", "s">>, <<"g", "u", "a", "r", "a", "n", "t", "e", "e", "d", " ", "o", "u", "t", "c", "o", "m", "e">>,
      <<"wan", "chi">>, <<"yeong", "gu", "jeok">>, <<"se", "gye", " ", "choe", "go">> }

q_Inputs ==
    /\ u_pc = "idle"
    /\ u_arg \in {Concat(ps) : ps \in SeqsUpTo(PromptParts, MaxPromptParts)}
    /\ u_res = NoResult

\* generate_medical_image(prompt) prepares the prompt it sends
PreparePrompt ==
    /\ u_pc = "idle"
    /\ u_res' = [enhanced |-> BGN_enhance_medical_prompt(u_arg),
                 sent |-> BGN_prompt_sent(u_arg)]
    /\ u_pc' = "prepared"
    /\ UNCHANGED u_arg

\* C27: every prompt generate_medical_image sends to the image API passes
\* _validate_medical_compliance: when validation of the enhanced prompt fails,
\* the prompt _sanitize_prompt returns holds no prohibited keyword and no risky
\* phrase, in any letter case.
C27_SentPromptCompliant ==
    u_pc = "prepared" => BGN_validate_medical_compliance(u_res.sent)

\* ------------------- BGNSheetsClient.add_content_row, interleaved sessions
\* two BGNSheetsClient objects (two sessions) on the same spreadsheet
Sessions == {1, 2}

\* the row_data of call number k of session c
SessionRow(c, k) == DataRow(10 * c + k)

r_vars == <<r_pc, r_next, r_call, r_rows, r_ok>>

r_Idle ==
    /\ r_pc = [c \in Sessions |-> "idle"]
    /\ r_next = [c \in Sessions |-> 0]
    /\ r_call = [c \in Sessions |-> 0]
    /\ r_rows = <<>>
    /\ r_ok = {}

\* both sessions hold the worksheet setup_main_worksheet has prepared: the
\* header row and the description row
r_Prepared ==
    /\ r_pc = [c \in Sessions |-> "idle"]
    /\ r_next = [c \in Sessions |-> 0]
    /\ r_call = [c \in Sessions |-> 0]
    /\ r_rows = <<HeaderRow, DescriptionRow>>
    /\ r_ok = {}

\* add_content_row up to `next_row = len(worksheet.get_all_values()) + 1`; the
\* request can fail, and the call then returns False
add_content_row_read(c) ==
    /\ r_pc[c] \in {"idle", "returned"}
    /\ r_call[c] < MaxSessionCalls
    /\ r_call' = [r_call EXCEPT ![c] = @ + 1]
    /\ \E outcome \in {"ok", "raise"} :
           IF outcome = "ok"
           THEN /\ r_next' = [r_next EXCEPT ![c] = Len(r_rows) + 1]
                /\ r_pc' = [r_pc EXCEPT ![c] = "read"]
           ELSE /\ r_pc' = [r_pc EXCEPT ![c] = "returned"]
                /\ UNCHANGED r_next
    /\ UNCHANGED <<r_rows, r_ok>>

\* worksheet.update(f'A{next_row}', [row_data]) and `return True`; the request
\* can fail, and the call then returns False
add_content_row_write(c) ==
    /\ r_pc[c] = "read"
    /\ \E outcome \in {"ok", "raise"} :
           IF outcome = "ok"
           THEN /\ r_rows' = SetRow(r_rows, r_next[c], SessionRow(c, r_call[c]))
                /\ r_ok' = r_ok \cup {SessionRow(c, r_call[c])}
           ELSE UNCHANGED <<r_rows, r_ok>>
    /\ r_pc' = [r_pc EXCEPT ![c] = "returned"]
    /\ UNCHANGED <<r_next, r_call>>

add_content_row_sessions ==
    \E c \in Sessions : add_content_row_read(c) \/ add_content_row_write(c)

\* C28: when add_content_row calls of two sessions on the same worksheet are
\* interleaved, the row of every call that returned True is in the sheet: no
\* call's write lands on the row another call has written.
C28_NoRowOverwritten ==
    \A row \in r_ok : \E i \in 1..Len(r_rows) : r_rows[i] = row

\* ---------------------------------------------------------- specifications
InitAnalyze == a_Idle /\ g_Idle /\ c_Idle /\ m_Idle /\ p_Idle /\ u_Idle /\ ig_Idle /\ w_Idle /\ s_Idle /\ r_Idle

NextAnalyze == AnalyzeInterview /\ UNCHANGED <<g_vars, c_vars, m_vars, p_vars, u_vars, ig_vars, w_vars, s_vars, r_vars>>

SpecAnalyze == InitAnalyze /\ [][NextAnalyze]_vars

InitGenerate == a_Idle /\ g_Idle /\ c_Idle /\ m_Idle /\ p_Idle /\ u_Idle /\ ig_Idle /\ w_Idle /\ s_Idle /\ r_Idle

NextGenerate == GenerateContent /\ UNCHANGED <<a_vars, c_vars, m_vars, p_vars, u_vars, ig_vars, w_vars, s_vars, r_vars>>

SpecGenerate == InitGenerate /\ [][NextGenerate]_vars

InitCompliance == a_Idle /\ g_Idle /\ c_Inputs /\ m_Idle /\ p_Idle /\ u_Idle /\ ig_Idle /\ w_Idle /\ s_Idle /\ r_Idle

NextCompliance == CheckCompliance /\ UNCHANGED <<a_vars, g_vars, m_vars, p_vars, u_vars, ig_vars, w_vars, s_vars, r_vars>>

SpecCompliance == InitCompliance /\ [][NextCompliance]_vars

InitMarkdown == a_Idle /\ g_Idle /\ c_Idle /\ m_Inputs /\ p_Idle /\ u_Idle /\ ig_Idle /\ w_Idle /\ s_Idle /\ r_Idle

NextMarkdown == ConvertMarkdown /\ UNCHANGED <<a_vars, g_vars, c_vars, p_vars, u_vars, ig_vars, w_vars, s_vars, r_vars>>

SpecMarkdown == InitMarkdown /\ [][NextMarkdown]_vars

InitPipeline == a_Idle /\ g_Idle /\ c_Idle /\ m_Idle /\ p_Entered /\ u_Idle /\ ig_Idle /\ w_Idle /\ s_Idle /\ r_Idle

NextPipeline == Pipeline /\ UNCHANGED <<a_vars, g_vars, c_vars, m_vars, u_vars, ig_vars, w_vars, s_vars, r_vars>>

SpecPipeline == InitPipeline /\ [][NextPipeline]_vars

\* the function runs on after step 2: each later step it reaches is carried out
\* (every call made there returns or raises)
SpecPipelineLive ==
    SpecPipeline /\ WF_vars(PipelineTail /\ UNCHANGED <<a_vars, g_vars, c_vars, m_vars, u_vars, ig_vars, w_vars, s_vars, r_vars>>)

InitPreprocess == a_Idle /\ g_Idle /\ c_Idle /\ m_Idle /\ p_Idle /\ n_Inputs /\ ig_Idle /\ w_Idle /\ s_Idle /\ r_Idle

NextPreprocess == PreprocessText /\ UNCHANGED <<a_vars, g_vars, c_vars, m_vars, p_vars, ig_vars, w_vars, s_vars, r_vars>>

SpecPreprocess == InitPreprocess /\ [][NextPreprocess]_vars

InitConfidence == a_Idle /\ g_Idle /\ c_Idle /\ m_Idle /\ p_Idle /\ k_Inputs /\ ig_Idle /\ w_Idle /\ s_Idle /\ r_Idle

NextConfidence == CalculateConfidence /\ UNCHANGED <<a_vars, g_vars, c_vars, m_vars, p_vars, ig_vars, w_vars, s_vars, r_vars>>

SpecConfidence == InitConfidence /\ [][NextConfidence]_vars

InitBoth == a_Idle /\ g_Idle /\ c_Idle /\ m_Idle /\ p_Idle /\ i_Inputs /\ ig_Idle /\ w_Idle /\ s_Idle /\ r_Idle

NextBoth == AnalyzeBoth /\ UNCHANGED <<a_vars, g_vars, c_vars, m_vars, p_vars, ig_vars, w_vars, s_vars, r_vars>>

SpecBoth == InitBoth /\ [][NextBoth]_vars

InitEmployee == a_Idle /\ g_Idle /\ c_Idle /\ m_Idle /\ p_Idle /\ e_Inputs /\ ig_Idle /\ w_Idle /\ s_Idle /\ r_Idle

NextEmployee == ExtractEmployee /\ UNCHANGED <<a_vars, g_vars, c_vars, m_vars, p_vars, ig_vars, w_vars, s_vars, r_vars>>

SpecEmployee == InitEmployee /\ [][NextEmployee]_vars

InitTone == a_Idle /\ g_Idle /\ c_Idle /\ m_Idle /\ p_Idle /\ t_Inputs /\ ig_Idle /\ w_Idle /\ s_Idle /\ r_Idle

NextTone == AnalyzeTone /\ UNCHANGED <<a_vars, g_vars, c_vars, m_vars, p_vars, ig_vars, w_vars, s_vars, r_vars>>

SpecTone == InitTone /\ [][NextTone]_vars

InitImage == a_Idle /\ g_Idle /\ c_Idle /\ m_Idle /\ p_Idle /\ u_Idle /\ ig_Idle /\ w_Idle /\ s_Idle /\ r_Idle

NextImage == generate_medical_image /\ UNCHANGED <<a_vars, g_vars, c_vars, m_vars, p_vars, u_vars, w_vars, s_vars, r_vars>>

SpecImage == InitImage /\ [][NextImage]_vars

\* every pass of the retry loop ends: the API call and the download return or
\* raise (both have timeouts) and the sleeps are finite
SpecImageLive ==
    SpecImage /\ WF_vars(generate_medical_image_step /\ UNCHANGED <<a_vars, g_vars, c_vars, m_vars, p_vars, u_vars, w_vars, s_vars, r_vars>>)

InitUpload == a_Idle /\ g_Idle /\ c_Idle /\ m_Idle /\ p_Idle /\ u_Idle /\ ig_Idle /\ w_Configured /\ s_Idle /\ r_Idle

NextUpload == upload_image_with_retry /\ UNCHANGED <<a_vars, g_vars, c_vars, m_vars, p_vars, u_vars, ig_vars, s_vars, r_vars>>

SpecUpload == InitUpload /\ [][NextUpload]_vars

InitSheets == a_Idle /\ g_Idle /\ c_Idle /\ m_Idle /\ p_Idle /\ u_Idle /\ ig_Idle /\ w_Idle /\ s_Connected /\ r_Idle

NextSheets == add_content_row /\ UNCHANGED <<a_vars, g_vars, c_vars, m_vars, p_vars, u_vars, ig_vars, w_vars, r_vars>>

SpecSheets == InitSheets /\ [][NextSheets]_vars

InitTags == a_Idle /\ g_Idle /\ c_Idle /\ m_Idle /\ p_Idle /\ j_Inputs /\ ig_Idle /\ w_Idle /\ s_Idle /\ r_Idle

NextTags == GenerateTags /\ UNCHANGED <<a_vars, g_vars, c_vars, m_vars, p_vars, ig_vars, w_vars, s_vars, r_vars>>

SpecTags == InitTags /\ [][NextTags]_vars

InitCreatePost == a_Idle /\ g_Idle /\ c_Idle /\ m_Idle /\ p_Idle /\ o_Inputs /\ ig_Idle /\ w_Idle /\ s_Idle /\ r_Idle

NextCreatePost == CreatePost /\ UNCHANGED <<a_vars, g_vars, c_vars, m_vars, p_vars, ig_vars, w_vars, s_vars, r_vars>>

SpecCreatePost == InitCreatePost /\ [][NextCreatePost]_vars

InitUploadAny == a_Idle /\ g_Idle /\ c_Idle /\ m_Idle /\ p_Idle /\ u_Idle /\ ig_Idle /\ w_AnyConfig /\ s_Idle /\ r_Idle

NextUploadAny == upload_image_with_retry /\ UNCHANGED <<a_vars, g_vars, c_vars, m_vars, p_vars, u_vars, ig_vars, s_vars, r_vars>>

SpecUploadAny == InitUploadAny /\ [][NextUploadAny]_vars

InitBatch == a_Idle /\ g_Idle /\ c_Idle /\ m_Idle /\ p_Idle /\ b_Inputs /\ ig_Idle /\ w_Idle /\ s_Idle /\ r_Idle

NextBatch == BatchPublish /\ UNCHANGED <<a_vars, g_vars, c_vars, m_vars, p_vars, ig_vars, w_vars, s_vars, r_vars>>

SpecBatch == InitBatch /\ [][NextBatch]_vars

InitPrompt == a_Idle /\ g_Idle /\ c_Idle /\ m_Idle /\ p_Idle /\ q_Inputs /\ ig_Idle /\ w_Idle /\ s_Idle /\ r_Idle

NextPrompt == PreparePrompt /\ UNCHANGED <<a_vars, g_vars, c_vars, m_vars, p_vars, ig_vars, w_vars, s_vars, r_vars>>

SpecPrompt == InitPrompt /\ [][NextPrompt]_vars

InitSessions == a_Idle /\ g_Idle /\ c_Idle /\ m_Idle /\ p_Idle /\ u_Idle /\ ig_Idle /\ w_Idle /\ s_Idle /\ r_Prepared

NextSessions == add_content_row_sessions /\ UNCHANGED <<a_vars, g_vars, c_vars, m_vars, p_vars, u_vars, ig_vars, w_vars, s_vars>>

SpecSessions == InitSessions /\ [][NextSessions]_vars

====
